---- MODULE Spec2Model ----
(***************************************************************************)
(* Model of the AI Renovation Quoter (paulster44/pp_job_quote).            *)
(*                                                                         *)
(* The revisions of the editor are modelled, selected by the variable       *)
(* `revision`:                                                             *)
(*   "quote"  - src/index.tsx lines 1-847 (quote only, rate book,          *)
(*              "adjust grand total")                                      *)
(*   "render" - src/unnamed/part_000 (separate quote and render actions,   *)
(*              bulk "bump")                                               *)
(* The specification of the requests (SpecRequests) also runs               *)
(*   "joint"  - src/index.tsx lines 848-1189 (one action that issues the   *)
(*              quote call and the render call and awaits both)            *)
(*                                                                         *)
(* Numbers.  A JavaScript number is modelled as an extended rational       *)
(* <<n, d>>: d > 0 and gcd(n, d) = 1 for a finite value n/d, and d = 0 for *)
(* the three special values <<1,0>> = +Infinity, <<-1,0>> = -Infinity and  *)
(* <<0,0>> = NaN.  Finite arithmetic is exact: binary rounding and the     *)
(* sign of zero are not modelled.                                          *)
(***************************************************************************)
EXTENDS Integers, Sequences, FiniteSets, TLC

\* ------------------------------------------------------------------ bounds
\* Largest numerator / denominator magnitude of a stored line-item number or
\* subtotal that the model explores (keeps TLC's 32-bit integers exact).
MaxNum == 40000
MaxDen == 40
\* Largest number of line items in a quote.
MaxItems == 2
\* Largest number of saved projects.
MaxProjects == 2
\* Largest number of state-changing user actions on a project in one run
\* (filling in the form and requesting a quote or render are not counted).
MaxEdits == 3
\* The same, in the runs that change rates and save and load projects.
MaxSessionEdits == 4
\* The same, in the runs that follow the requests to the external model.
MaxRequestEdits == 2
\* The same, in the runs that follow the saved projects and localStorage.
MaxStoreEdits == 3

\* ------------------------------------------------------- extended rationals
Abs(n) == IF n < 0 THEN -n ELSE n

Sign(n) == IF n < 0 THEN -1 ELSE IF n = 0 THEN 0 ELSE 1

RECURSIVE GCD(_, _)
GCD(a, b) == IF b = 0 THEN a ELSE GCD(b, a % b)

\* n/d with d # 0, in lowest terms with a positive denominator
Norm(n, d) ==
  LET g == GCD(Abs(n), Abs(d))
  IN  IF n = 0 THEN <<0, 1>> ELSE <<(Sign(d) * n) \div g, Abs(d) \div g>>

NaN == <<0, 0>>
Infinity == <<1, 0>>
NegInfinity == <<-1, 0>>
Num(n) == <<n, 1>>
Zero == <<0, 1>>
One == <<1, 1>>
Hundred == <<100, 1>>

isNaN(x) == x = NaN
isFinite(x) == x[2] # 0
IsZero(x) == x = Zero
\* x <= 0 as JavaScript evaluates it (false for NaN)
LeqZero(x) == ~isNaN(x) /\ x[1] <= 0

\* JavaScript x + y
Add(x, y) ==
  IF isNaN(x) \/ isNaN(y) THEN NaN
  ELSE IF ~isFinite(x) /\ ~isFinite(y) THEN (IF x = y THEN x ELSE NaN)
  ELSE IF ~isFinite(x) THEN x
  ELSE IF ~isFinite(y) THEN y
  ELSE LET g == GCD(x[2], y[2])
           l == (x[2] \div g) * y[2]
       IN  Norm(x[1] * (l \div x[2]) + y[1] * (l \div y[2]), l)

\* JavaScript x * y
Mul(x, y) ==
  IF isNaN(x) \/ isNaN(y) THEN NaN
  ELSE IF ~isFinite(x) \/ ~isFinite(y)
       THEN (IF x[1] = 0 \/ y[1] = 0 THEN NaN
             ELSE <<Sign(x[1]) * Sign(y[1]), 0>>)
  ELSE LET g1 == GCD(Abs(x[1]), y[2])
           g2 == GCD(Abs(y[1]), x[2])
       IN  Norm((x[1] \div g1) * (y[1] \div g2), (x[2] \div g2) * (y[2] \div g1))

\* JavaScript x / y (a zero divisor is +0)
Div(x, y) ==
  IF isNaN(x) \/ isNaN(y) THEN NaN
  ELSE IF ~isFinite(y) THEN (IF isFinite(x) THEN Zero ELSE NaN)
  ELSE IF y[1] = 0 THEN (IF x[1] = 0 THEN NaN ELSE <<Sign(x[1]), 0>>)
  ELSE IF ~isFinite(x) THEN <<x[1] * Sign(y[1]), 0>>
  ELSE Mul(x, <<Sign(y[1]) * y[2], Abs(y[1])>>)

\* a stored number the model explores: special, or within MaxNum / MaxDen
\* JavaScript undefined where a number is expected
Undefined == <<>>

Fits(x) ==
  IF x = Undefined THEN TRUE
  ELSE ~isFinite(x) \/ (Abs(x[1]) <= MaxNum /\ x[2] <= MaxDen)

\* ------------------------------------------------------------ program data
Revisions == {"quote", "render"}

Regions == {"QC_MONTREAL", "ON_TORONTO", "NYC"}

\* A table with one rate for every region (what TAX_RATES must differ from).
FlatTaxRates(r) == Num(13)

\* TAX_RATES: 14.975, 13, 8.875 (percent)
TAX_RATES(r) ==
  CASE r = "QC_MONTREAL" -> <<599, 40>>
    [] r = "ON_TORONTO" -> <<13, 1>>
    [] r = "NYC" -> <<71, 8>>

\* useState initial values of overheadPercent / contingencyPercent
InitialOverhead(rev) == IF rev = "quote" THEN <<15, 2>> ELSE <<10, 1>>
InitialContingency == <<5, 1>>

DefaultDisclaimer == "This is a labor-only quote and does not include major materials."

\* Optional values: <<>> is null, <<v>> is the value v
None == <<>>
Some(v) == <<v>>

\* What the user can type into a number input, and what parseFloat makes of it
NumberInputs == {"", "0", "2", "3", "5", "10", "-100", "113", "4599"}
parseFloat(s) ==
  CASE s = "" -> NaN
    [] s = "0" -> Num(0)
    [] s = "2" -> Num(2)
    [] s = "3" -> Num(3)
    [] s = "5" -> Num(5)
    [] s = "10" -> Num(10)
    [] s = "-100" -> Num(-100)
    [] s = "113" -> Num(113)
    [] s = "4599" -> Num(4599)

\* Keeping the parsed value whatever it is (what OrZero must differ from).
KeepParsed(x) == x

\* JavaScript `x || 0` on a number: NaN and 0 are falsy
OrZero(x) == IF isNaN(x) \/ IsZero(x) THEN Zero ELSE x

\* item.trim().toLowerCase()
Descriptions == {"Paint", "Trim", "New Item", "paint ", " "}
KeyOf(s) ==
  CASE s = "Paint" -> "paint"
    [] s = "paint " -> "paint"
    [] s = "Trim" -> "trim"
    [] s = "New Item" -> "new item"
    [] s = " " -> ""
    [] s = "Constructor" -> "constructor"

LineItem(i, q, u, r, t) == [item |-> i, quantity |-> q, unit |-> u, rate |-> r, total |-> t]

\* lineItems.reduce((acc, item) => acc + item.total, 0)
RECURSIVE SumTotals(_)
SumTotals(items) ==
  IF items = <<>> THEN Zero
  ELSE Add(SumTotals(SubSeq(items, 1, Len(items) - 1)), items[Len(items)].total)

\* the line items the model explores (see MaxNum, MaxDen)
ItemsFit(items) ==
  /\ \A i \in 1..Len(items) :
       Fits(items[i].quantity) /\ Fits(items[i].rate) /\ Fits(items[i].total)
  /\ Fits(SumTotals(items))

\* quote?.summary.disclaimer ("" stands for undefined)
QuoteDisclaimer(q) == IF q = None THEN "" ELSE q[1].summary.disclaimer

\* recalculateQuote(lineItems, disclaimer) in a render whose state is
\* overheadPercent = oh, contingencyPercent = ct, region = reg and whose
\* quote?.summary.disclaimer is prev
recalculateQuote(lineItems, disclaimer, oh, ct, reg, prev) ==
  LET subtotal == SumTotals(lineItems)
      overhead == Mul(subtotal, Div(oh, Hundred))
      contingency == Mul(subtotal, Div(ct, Hundred))
      preTaxTotal == Add(Add(subtotal, overhead), contingency)
      tax == Mul(preTaxTotal, Div(TAX_RATES(reg), Hundred))
      grandTotal == Add(preTaxTotal, tax)
  IN  [lineItems |-> lineItems,
       summary |-> [subtotal |-> subtotal,
                    overhead |-> overhead,
                    contingency |-> contingency,
                    tax |-> tax,
                    grandTotal |-> grandTotal,
                    disclaimer |->
                      IF disclaimer # "" THEN disclaimer
                      ELSE IF prev # "" THEN prev
                      ELSE DefaultDisclaimer]]

\* ------------------------------------------------------------------ state
VARIABLES
  revision,            \* which revision of the App component runs
  projectName,         \* useState('')
  file,                \* useState<File | null>: "null" or a file name
  filePreview,         \* useState<string | null>: "null" or a data URI
  reader,              \* FileReader started by handleFileChange: "idle" or the file read
  region,              \* useState<Region>
  scope,               \* useState('')
  isQuoteLoading,
  isRenderLoading,     \* revision "render" only
  error,               \* useState<string | null>: "null" or the message
  quote,               \* useState<Quote | null>: None or Some(quote)
  generatedImage,      \* revision "render" only: "null" or a data URI
  savedProjects,       \* useState<SavedProject[]>
  currentProjectId,    \* useState<string | null>: 0 is null, else the Date.now() id
  rateAdjustPercent,   \* revision "quote": useState(5), a number
  bumpPercent,         \* revision "render": useState('10'), a string
  contractorRates,     \* revision "quote": rate book, a set of [key, rate, unit]
  overheadPercent,
  contingencyPercent,
  targetTotal,         \* revision "quote": the "Set new total" input text
  effectDeps,          \* [overheadPercent, contingencyPercent, region] of the last
                       \* render whose recalculation effect has run
  quoteCall,           \* the generateQuote call awaiting its response: None or
                       \* Some(the state its closure captured)
  renderCall,          \* the generateRender call awaiting its response
  now,                 \* Date.now()
  roomType,            \* useState('Kitchen')
  style,               \* revisions "render" and "joint": useState<StylePreset>('Modern')
  theme,               \* useState<Theme>('dark')
  storedProjects,      \* localStorage 'renovationProjects': None or Some(JSON value)
  storedRates,         \* localStorage 'contractorRates': None or Some(JSON value)
  storedTheme,         \* localStorage 'theme': None or Some(theme)
  download,            \* the file last handed to the browser by exportCSV: None or
                       \* Some(its rows)
  isAuthenticated,     \* revision "quote": useState(false)
  sessionAuth,         \* sessionStorage 'isAppAuthenticated' === 'true'
  loginError,          \* LoginScreen: useState('') of error
  edits                \* how many user actions on a project (edits, rate and region
                       \* changes, save, load) changed the state so far; it bounds
                       \* the exploration, see MaxEdits

formVars == <<projectName, file, filePreview, reader, scope>>
pctVars == <<overheadPercent, contingencyPercent, region>>
genVars == <<isQuoteLoading, isRenderLoading, error, generatedImage, quoteCall, renderCall>>
projVars == <<savedProjects, currentProjectId, now>>
editVars == <<rateAdjustPercent, bumpPercent, contractorRates, targetTotal>>
roomVars == <<roomType, style>>
storeVars == <<theme, storedProjects, storedRates, storedTheme>>
authVars == <<isAuthenticated, sessionAuth, loginError>>

vars == <<revision, formVars, pctVars, genVars, projVars, editVars, roomVars, storeVars,
          download, authVars, quote, effectDeps, edits>>

\* the dependency array [overheadPercent, contingencyPercent, region] of the
\* recalculation effect, as of the current render
Deps == <<overheadPercent, contingencyPercent, region>>

\* No committed render is waiting for its effect: React runs the effect of a
\* render caused by a user event before it handles the next event.
\* (The revision "joint" has no such effect.)
Settled == revision = "joint" \/ effectDeps = Deps

HasQuote == quote # None

\* An editor rendered to everybody (what EditorShown must differ from).
AlwaysShown == TRUE

\* `if (!isAuthenticated) return <LoginScreen .../>`: the editor is rendered,
\* and its handlers can be called, only once the user is authenticated (the
\* revisions other than "quote" have no login screen)
EditorShown == revision = "quote" => isAuthenticated

\* ------------------------------------------------------------ localStorage
\* JSON null
JsonNull == <<>>

\* JSON.stringify of a number (or of the null a reload left in its place):
\* NaN and the infinities become null
JsonNumber(x) == IF x = JsonNull THEN JsonNull ELSE IF isFinite(x) THEN x ELSE JsonNull

JsonItem(it) ==
  [it EXCEPT !.quantity = JsonNumber(it.quantity),
             !.rate = JsonNumber(it.rate),
             !.total = JsonNumber(it.total)]

\* JSON.stringify of a Quote | null
JsonQuote(q) ==
  IF q = None THEN None
  ELSE Some([lineItems |-> [i \in 1..Len(q[1].lineItems) |-> JsonItem(q[1].lineItems[i])],
             summary |-> [subtotal |-> JsonNumber(q[1].summary.subtotal),
                          overhead |-> JsonNumber(q[1].summary.overhead),
                          contingency |-> JsonNumber(q[1].summary.contingency),
                          tax |-> JsonNumber(q[1].summary.tax),
                          grandTotal |-> JsonNumber(q[1].summary.grandTotal),
                          disclaimer |-> q[1].summary.disclaimer]])

\* JSON.stringify of a SavedProject
JsonProject(p) ==
  [p EXCEPT !.quote = JsonQuote(p.quote),
            !.overheadPercent = JsonNumber(p.overheadPercent),
            !.contingencyPercent = JsonNumber(p.contingencyPercent)]

\* Writing one record only (what StringifyProjects must differ from).
StringifyFirst(projects) == <<JsonProject(projects[1])>>

\* JSON.stringify(updatedProjects), as the value JSON.parse gives back
StringifyProjects(projects) ==
  [i \in 1..Len(projects) |-> JsonProject(projects[i])]

\* Writing an empty rate book (what StringifyRates must differ from).
NoRates(rates) == {}

\* JSON.stringify(updatedRates), as the value JSON.parse gives back
StringifyRates(rates) ==
  { [r EXCEPT !.rate = JsonNumber(r.rate)] : r \in rates }

Init ==
  /\ revision \in Revisions
  /\ projectName = ""
  /\ file = "null"
  /\ filePreview = "null"
  /\ reader = "idle"
  /\ region = "QC_MONTREAL"
  /\ scope = ""
  /\ isQuoteLoading = FALSE
  /\ isRenderLoading = FALSE
  /\ error = "null"
  /\ quote = None
  /\ generatedImage = "null"
  /\ savedProjects = <<>>
  /\ currentProjectId = 0
  /\ rateAdjustPercent = Num(5)
  /\ bumpPercent = "10"
  /\ contractorRates = {}
  /\ overheadPercent = InitialOverhead(revision)
  /\ contingencyPercent = InitialContingency
  /\ targetTotal = ""
  /\ effectDeps = <<InitialOverhead(revision), InitialContingency, "QC_MONTREAL">>
  /\ quoteCall = None
  /\ renderCall = None
  /\ now = 1
  /\ roomType = "Kitchen"
  /\ style = "Modern"
  /\ theme = "dark"
  /\ storedProjects = None
  /\ storedRates = None
  /\ storedTheme = None
  /\ download = None
  /\ isAuthenticated = (revision # "quote")
  /\ sessionAuth = FALSE
  /\ loginError = ""
  /\ edits = 0

\* ---------------------------------------------------------- the login screen
DEMO_PASSWORD == "password123"

\* what the user can type into the password field
Passwords == {"password123", "password", ""}

\* LoginScreen.handleSubmit with the typed password, and handleLoginSuccess
handleSubmit(password) ==
  /\ revision = "quote"
  /\ ~isAuthenticated
  /\ IF password = DEMO_PASSWORD
     THEN /\ loginError' = ""
          /\ sessionAuth' = TRUE
          /\ isAuthenticated' = TRUE
     ELSE /\ loginError' = "Incorrect password. Please try again."
          /\ UNCHANGED <<sessionAuth, isAuthenticated>>
  /\ UNCHANGED <<edits, revision, download, roomVars, storeVars, formVars, pctVars, genVars,
                 projVars, editVars, quote, effectDeps>>

\* The user signs in.
Login == \E password \in Passwords : handleSubmit(password)

\* --------------------------------------------------------------- the form
ProjectNames == {"", "A", "B"}
Files == {"photo.jpg"}
Scopes == {"", "Repaint"}

\* reader.result of readAsDataURL(f)
DataUrl(f) == "data:image/jpeg;base64," \o f

\* onChange of the project-name input
setProjectName(n) ==
  /\ EditorShown
  /\ Settled
  /\ projectName' = n
  /\ UNCHANGED <<edits, revision, download, authVars, roomVars, storeVars, file, filePreview, reader, scope, pctVars, genVars,
                 projVars, editVars, quote, effectDeps>>

\* URL.createObjectURL(f) of revision "joint"
ObjectUrl(f) == "blob:" \o f

\* handleFileChange: the preview is read asynchronously (reader), in
\* revision "joint" it is an object URL set at once
handleFileChange(f) ==
  /\ EditorShown
  /\ Settled
  /\ file' = f
  /\ IF revision = "joint"
     THEN filePreview' = ObjectUrl(f) /\ reader' = reader
     ELSE reader' = f /\ filePreview' = filePreview
  /\ UNCHANGED <<edits, revision, download, authVars, roomVars, storeVars, projectName, scope, pctVars, genVars,
                 projVars, editVars, quote, effectDeps>>

\* reader.onloadend of handleFileChange
ReaderLoadEnd ==
  /\ EditorShown
  /\ Settled
  /\ reader # "idle"
  /\ filePreview' = DataUrl(reader)
  /\ reader' = "idle"
  /\ UNCHANGED <<edits, revision, download, authVars, roomVars, storeVars, projectName, file, scope, pctVars, genVars,
                 projVars, editVars, quote, effectDeps>>

\* onChange of the scope textarea
setScope(s) ==
  /\ EditorShown
  /\ Settled
  /\ scope' = s
  /\ UNCHANGED <<edits, revision, download, authVars, roomVars, storeVars, projectName, file, filePreview, reader, pctVars, genVars,
                 projVars, editVars, quote, effectDeps>>

RoomTypes == {"Kitchen", "Bathroom"}
Styles == {"Modern", "Farmhouse"}

\* onChange of the room-type select
setRoomType(t) ==
  /\ EditorShown
  /\ Settled
  /\ t # roomType
  /\ roomType' = t
  /\ UNCHANGED <<edits, revision, download, authVars, style, storeVars, formVars, pctVars, genVars, projVars,
                 editVars, quote, effectDeps>>

\* onChange of a style radio button (revisions "render" and "joint"; the
\* revision "quote" has no style and keeps the initial value)
setStyle(st) ==
  /\ EditorShown
  /\ Settled
  /\ revision # "quote"
  /\ st # style
  /\ style' = st
  /\ UNCHANGED <<edits, revision, download, authVars, roomType, storeVars, formVars, pctVars, genVars, projVars,
                 editVars, quote, effectDeps>>

\* toggleTheme: setTheme(newTheme); localStorage.setItem('theme', newTheme)
toggleTheme ==
  /\ EditorShown
  /\ Settled
  /\ theme' = IF theme = "light" THEN "dark" ELSE "light"
  /\ storedTheme' = Some(theme')
  /\ UNCHANGED <<edits, revision, download, authVars, roomVars, storedProjects, storedRates, formVars, pctVars,
                 genVars, projVars, editVars, quote, effectDeps>>

\* onChange of the region select
setRegion(r) ==
  /\ EditorShown
  /\ Settled
  /\ r # region
  /\ region' = r
  /\ edits' = edits + 1
  /\ UNCHANGED <<revision, download, authVars, roomVars, storeVars, formVars, overheadPercent, contingencyPercent, genVars,
                 projVars, editVars, quote, effectDeps>>

\* onChange of the overhead % input (rendered with the quote):
\* setOverheadPercent(parseFloat(e.target.value) || 0)
setOverheadPercent(s) ==
  /\ EditorShown
  /\ Settled
  /\ HasQuote
  /\ overheadPercent' = OrZero(parseFloat(s))
  /\ edits' = IF overheadPercent' = overheadPercent THEN edits ELSE edits + 1
  /\ UNCHANGED <<revision, download, authVars, roomVars, storeVars, formVars, contingencyPercent, region, genVars,
                 projVars, editVars, quote, effectDeps>>

\* onChange of the contingency % input (rendered with the quote)
setContingencyPercent(s) ==
  /\ EditorShown
  /\ Settled
  /\ HasQuote
  /\ contingencyPercent' = OrZero(parseFloat(s))
  /\ edits' = IF contingencyPercent' = contingencyPercent THEN edits ELSE edits + 1
  /\ UNCHANGED <<revision, download, authVars, roomVars, storeVars, formVars, overheadPercent, region, genVars,
                 projVars, editVars, quote, effectDeps>>

\* useEffect(..., [overheadPercent, contingencyPercent, region]): runs after a
\* render in which one of the three differs from the previous render
RecalculateEffect ==
  /\ ~Settled
  /\ effectDeps' = Deps
  /\ IF HasQuote
     THEN /\ quote' = Some(recalculateQuote(quote[1].lineItems, "", overheadPercent,
                                            contingencyPercent, region,
                                            QuoteDisclaimer(quote)))
          /\ targetTotal' = IF revision = "quote" THEN "" ELSE targetTotal
     ELSE UNCHANGED <<quote, targetTotal>>
  /\ UNCHANGED <<edits, revision, download, authVars, roomVars, storeVars, formVars, pctVars, genVars, projVars,
                 rateAdjustPercent, bumpPercent, contractorRates>>

\* ----------------------------------------------------- the external model
\* Line items the model answers with (JSON numbers, so finite).  The second
\* item's total is not quantity * rate: the model's arithmetic is its own.
PaintItem == LineItem("Paint", Num(2), "sqft", Num(20), Num(40))
TrimItem == LineItem("Trim", Num(2), "lf", Num(3), Num(7))

\* JSON.parse(quoteResponse.text): lineItems and summary.disclaimer
QuoteReplies ==
  { [lineItems |-> <<PaintItem>>, disclaimer |-> "Labor only."],
    [lineItems |-> <<PaintItem, TrimItem>>, disclaimer |-> ""] }

\* err.message of a rejected request or of a JSON.parse failure
FailureMessages == {"Network error"}

\* err.message of JSON.parse(quoteResponse.text) on a text that is not JSON
ParseFailures == {"Unexpected end of JSON input"}

\* message of the Error thrown for a render response without an image
NoImageMessage == "Image generation failed to return an image."

\* the input validation of the generate handlers: file, scope and (not in
\* revision "joint") project name
InputsValid ==
  /\ file # "null"
  /\ scope # ""
  /\ revision # "joint" => projectName # ""

\* Buttons that look at the quote flag only (what GenerateEnabled must differ
\* from).
EnabledWhileRendering ==
  /\ ~isQuoteLoading
  /\ InputsValid

\* disabled attribute of the generate buttons (revision "joint": isQuoteLoading
\* stands for its one `loading` flag)
GenerateEnabled ==
  /\ ~isQuoteLoading
  /\ revision = "render" => ~isRenderLoading
  /\ InputsValid

\* What a quote request carries: the image part and the values interpolated
\* into quotePrompt (None: not in the request).  The prompt names the tax
\* only as "the correct local tax for the ${region} area", without a rate.
QuoteRequest ==
  [image |-> Some(file),
   roomType |-> Some(roomType),
   scope |-> Some(scope),
   region |-> Some(region),
   overheadPercent |-> Some(overheadPercent),
   contingencyPercent |-> Some(contingencyPercent),
   taxRate |-> None]

\* Revision "joint": "a 10% overhead, 5% contingency, and 13% tax" is fixed
\* text of the prompt.
JointQuoteRequest ==
  [image |-> Some(file),
   roomType |-> Some(roomType),
   scope |-> Some(scope),
   region |-> Some(region),
   overheadPercent |-> Some(Num(10)),
   contingencyPercent |-> Some(Num(5)),
   taxRate |-> Some(Num(13))]

\* What a render request carries: the image part and the values interpolated
\* into renderPrompt (room type, style, scope)
RenderRequest ==
  [image |-> Some(file),
   roomType |-> Some(roomType),
   scope |-> Some(scope),
   style |-> Some(style),
   region |-> None]

\* generateQuote up to its first await.  The rest of the call keeps the
\* closure of this render: recalculateQuote there reads these values.
generateQuote ==
  /\ EditorShown
  /\ Settled
  /\ GenerateEnabled
  /\ isQuoteLoading' = TRUE
  /\ error' = "null"
  /\ quote' = None
  /\ revision # "joint"
  /\ quoteCall' = Some([overheadPercent |-> overheadPercent,
                        contingencyPercent |-> contingencyPercent,
                        region |-> region,
                        disclaimer |-> QuoteDisclaimer(quote),
                        request |-> QuoteRequest])
  /\ UNCHANGED <<edits, revision, download, authVars, roomVars, storeVars, formVars, pctVars, isRenderLoading, generatedImage,
                 renderCall, projVars, editVars, effectDeps>>

\* generateQuote after await ai.models.generateContent(...), response parsed
QuoteResponse(reply) ==
  /\ EditorShown
  /\ Settled
  /\ revision # "joint"
  /\ quoteCall # None
  /\ quote' = Some(recalculateQuote(reply.lineItems, reply.disclaimer,
                                    quoteCall[1].overheadPercent,
                                    quoteCall[1].contingencyPercent,
                                    quoteCall[1].region,
                                    quoteCall[1].disclaimer))
  /\ isQuoteLoading' = FALSE
  /\ quoteCall' = None
  /\ UNCHANGED <<edits, revision, download, authVars, roomVars, storeVars, formVars, pctVars, isRenderLoading, error, generatedImage,
                 renderCall, projVars, editVars, effectDeps>>

\* Ending the call without a message (what QuoteFailure must differ from).
QuoteFailureSilent(msg) ==
  /\ EditorShown
  /\ Settled
  /\ revision # "joint"
  /\ quoteCall # None
  /\ isQuoteLoading' = FALSE
  /\ quoteCall' = None
  /\ UNCHANGED <<edits, revision, download, authVars, roomVars, storeVars, formVars, pctVars, isRenderLoading,
                 error, generatedImage, renderCall, projVars, editVars, quote, effectDeps>>

\* generateQuote: catch (err) and finally
QuoteFailure(msg) ==
  /\ EditorShown
  /\ Settled
  /\ revision # "joint"
  /\ quoteCall # None
  /\ error' = "Failed to generate quote. " \o msg
  /\ isQuoteLoading' = FALSE
  /\ quoteCall' = None
  /\ UNCHANGED <<edits, revision, download, authVars, roomVars, storeVars, formVars, pctVars, isRenderLoading, generatedImage,
                 renderCall, projVars, editVars, quote, effectDeps>>

\* the image of a render response
RenderImages == {"data:image/png;base64,after"}

\* generateRender up to its first await (revision "render")
generateRender ==
  /\ EditorShown
  /\ Settled
  /\ revision = "render"
  /\ GenerateEnabled
  /\ isRenderLoading' = TRUE
  /\ error' = "null"
  /\ generatedImage' = "null"
  /\ renderCall' = Some([request |-> RenderRequest])
  /\ UNCHANGED <<edits, revision, download, authVars, roomVars, storeVars, formVars, pctVars, isQuoteLoading, quoteCall,
                 projVars, editVars, quote, effectDeps>>

\* A response that takes the quote away when it installs the image (what
\* RenderResponse must differ from).
RenderReplacesQuote(img) ==
  /\ EditorShown
  /\ Settled
  /\ revision = "render"
  /\ renderCall # None
  /\ generatedImage' = img
  /\ quote' = None
  /\ isRenderLoading' = FALSE
  /\ renderCall' = None
  /\ UNCHANGED <<edits, revision, download, authVars, roomVars, storeVars, formVars, pctVars,
                 isQuoteLoading, error, quoteCall, projVars, editVars, effectDeps>>

\* generateRender: the response carries an inline image
RenderResponse(img) ==
  /\ EditorShown
  /\ Settled
  /\ revision = "render"
  /\ renderCall # None
  /\ generatedImage' = img
  /\ isRenderLoading' = FALSE
  /\ renderCall' = None
  /\ UNCHANGED <<edits, revision, download, authVars, roomVars, storeVars, formVars, pctVars, isQuoteLoading, error, quoteCall,
                 projVars, editVars, quote, effectDeps>>

\* generateRender: the request is rejected or the response has no image
RenderFailure(msg) ==
  /\ EditorShown
  /\ Settled
  /\ revision = "render"
  /\ renderCall # None
  /\ error' = "Failed to generate render. " \o msg
  /\ isRenderLoading' = FALSE
  /\ renderCall' = None
  /\ UNCHANGED <<edits, revision, download, authVars, roomVars, storeVars, formVars, pctVars, isQuoteLoading, generatedImage, quoteCall,
                 projVars, editVars, quote, effectDeps>>

\* the messages of the input validation of the three generate handlers
QuoteInputsMissing ==
  "Please provide a project name, upload a photo, and describe the scope of work to generate a quote."
RenderInputsMissing ==
  "Please provide a project name, upload a photo, and describe the scope of work to generate a render."
JointInputsMissing == "Please upload a photo and describe the scope of work."

\* errorMessage of a catch block whose err is not an Error
UnknownError == "An unknown error occurred."

\* generateQuote called while file, scope or project name is missing (the
\* button is disabled then; this is the guard of the handler itself)
generateQuoteRejected ==
  /\ EditorShown
  /\ Settled
  /\ revision # "joint"
  /\ ~InputsValid
  /\ error' = QuoteInputsMissing
  /\ UNCHANGED <<edits, revision, download, authVars, roomVars, storeVars, formVars, pctVars, isQuoteLoading,
                 isRenderLoading, generatedImage, quoteCall, renderCall, projVars,
                 editVars, quote, effectDeps>>

\* generateRender called while file, scope or project name is missing
generateRenderRejected ==
  /\ EditorShown
  /\ Settled
  /\ revision = "render"
  /\ ~InputsValid
  /\ error' = RenderInputsMissing
  /\ UNCHANGED <<edits, revision, download, authVars, roomVars, storeVars, formVars, pctVars, isQuoteLoading,
                 isRenderLoading, generatedImage, quoteCall, renderCall, projVars,
                 editVars, quote, effectDeps>>

\* generateQuote whose file cannot be read: fileToGenerativePart resolves in
\* reader.onloadend with reader.result.split(','), and reader.result is null
\* after a failed read, so the handler throws, the promise is never settled
\* and the call stays at `await fileToGenerativePart(file)`: no request is
\* sent, neither catch nor finally runs.
generateQuoteUnreadable ==
  /\ EditorShown
  /\ Settled
  /\ revision # "joint"
  /\ GenerateEnabled
  /\ isQuoteLoading' = TRUE
  /\ error' = "null"
  /\ quote' = None
  /\ UNCHANGED <<edits, revision, download, authVars, roomVars, storeVars, formVars, pctVars, isRenderLoading,
                 generatedImage, quoteCall, renderCall, projVars, editVars, effectDeps>>

\* generateRender whose file cannot be read
generateRenderUnreadable ==
  /\ EditorShown
  /\ Settled
  /\ revision = "render"
  /\ GenerateEnabled
  /\ isRenderLoading' = TRUE
  /\ error' = "null"
  /\ generatedImage' = "null"
  /\ UNCHANGED <<edits, revision, download, authVars, roomVars, storeVars, formVars, pctVars, isQuoteLoading,
                 quoteCall, renderCall, projVars, editVars, quote, effectDeps>>

\* ------------------------------------ revision "joint": generateQuoteAndRenders
\* JSON.parse(quoteResponse.text) of revision "joint": the quote is installed
\* as the model computed it
JointReplies ==
  { [lineItems |-> <<PaintItem>>,
     summary |-> [subtotal |-> Num(40), overhead |-> Num(4), contingency |-> Num(2),
                  tax |-> <<299, 50>>, grandTotal |-> <<2599, 50>>]] }

\* renderResponse.candidates[0].content.parts[0]: an inline image or none
RenderParts == {None} \cup {Some(img) : img \in RenderImages}

\* generateQuoteAndRenders up to await Promise.all([quotePromise, renderPromise])
generateQuoteAndRenders ==
  /\ revision = "joint"
  /\ GenerateEnabled
  /\ isQuoteLoading' = TRUE
  /\ error' = "null"
  /\ quote' = None
  /\ generatedImage' = "null"
  /\ quoteCall' = Some([request |-> JointQuoteRequest])
  /\ renderCall' = Some([request |-> RenderRequest])
  /\ UNCHANGED <<edits, revision, download, authVars, roomVars, storeVars, formVars, pctVars, isRenderLoading,
                 projVars, editVars, effectDeps>>

\* generateQuoteAndRenders called while file or scope is missing
generateQuoteAndRendersRejected ==
  /\ revision = "joint"
  /\ ~InputsValid
  /\ error' = JointInputsMissing
  /\ UNCHANGED <<edits, revision, download, authVars, roomVars, storeVars, formVars, pctVars, isQuoteLoading,
                 isRenderLoading, generatedImage, quoteCall, renderCall, projVars,
                 editVars, quote, effectDeps>>

\* generateQuoteAndRenders whose file cannot be read
generateQuoteAndRendersUnreadable ==
  /\ revision = "joint"
  /\ GenerateEnabled
  /\ isQuoteLoading' = TRUE
  /\ error' = "null"
  /\ quote' = None
  /\ generatedImage' = "null"
  /\ UNCHANGED <<edits, revision, download, authVars, roomVars, storeVars, formVars, pctVars, isRenderLoading,
                 quoteCall, renderCall, projVars, editVars, effectDeps>>

\* Both responses arrived and the quote text is JSON: setQuote(quoteJson),
\* then the image is set or, without an image, the Error is thrown and
\* caught; finally.
JointResponse(reply, part) ==
  /\ revision = "joint"
  /\ quoteCall # None
  /\ renderCall # None
  /\ quote' = Some(reply)
  /\ IF part # None
     THEN generatedImage' = part[1] /\ error' = error
     ELSE /\ generatedImage' = generatedImage
          /\ error' = "Failed to generate results. " \o NoImageMessage
  /\ isQuoteLoading' = FALSE
  /\ quoteCall' = None
  /\ renderCall' = None
  /\ UNCHANGED <<edits, revision, download, authVars, roomVars, storeVars, formVars, pctVars, isRenderLoading,
                 projVars, editVars, effectDeps>>

\* One of the two requests is rejected (Promise.all rejects, the response
\* of the other is dropped), or the quote text is not JSON: catch, finally.
JointFailure(msg) ==
  /\ revision = "joint"
  /\ quoteCall # None
  /\ renderCall # None
  /\ error' = "Failed to generate results. " \o msg
  /\ isQuoteLoading' = FALSE
  /\ quoteCall' = None
  /\ renderCall' = None
  /\ UNCHANGED <<edits, revision, download, authVars, roomVars, storeVars, formVars, pctVars, isRenderLoading,
                 generatedImage, projVars, editVars, quote, effectDeps>>

\* ---------------------------------------------------------- saved projects
\* a.name.localeCompare(b.name) <= 0 on the project names of the model
NameLeq(a, b) == a = b \/ (a = "A" /\ b = "B")

\* [...otherProjects, newProject].sort(by name): the sort is stable and
\* otherProjects is sorted, so newProject lands behind every name <= its own
RECURSIVE SortedInsert(_, _)
SortedInsert(projects, p) ==
  IF projects = <<>> THEN <<p>>
  ELSE IF NameLeq(projects[1].name, p.name)
       THEN <<projects[1]>> \o SortedInsert(Tail(projects), p)
       ELSE <<p>> \o projects

\* Keeping every saved project (what WithoutId must differ from).
KeepAll(projects, id) == projects

\* savedProjects.filter(p => p.id !== id)
RECURSIVE WithoutId(_, _)
WithoutId(projects, id) ==
  IF projects = <<>> THEN <<>>
  ELSE IF projects[1].id # id
       THEN <<projects[1]>> \o WithoutId(Tail(projects), id)
       ELSE WithoutId(Tail(projects), id)

\* disabled attribute of the Save Project button
SaveEnabled ==
  /\ ~isQuoteLoading
  /\ ~isRenderLoading
  /\ projectName # ""
  /\ IF revision = "quote" THEN HasQuote ELSE HasQuote \/ generatedImage # "null"

\* A guard that does not ask for the file (what SaveAccepted must differ
\* from).
SaveWithoutFile ==
  /\ projectName # ""
  /\ IF revision = "quote" THEN HasQuote ELSE HasQuote \/ generatedImage # "null"
  /\ filePreview # "null"

\* the guard of saveProject: !projectName || !quote || !filePreview || !file
\* (revision "render": !quote && !generatedImage) returns after the alert
SaveAccepted ==
  /\ projectName # ""
  /\ IF revision = "quote" THEN HasQuote ELSE HasQuote \/ generatedImage # "null"
  /\ filePreview # "null"
  /\ file # "null"

\* newProject of saveProject: the snapshot of the session under the given id
\* (style and generatedImage keep their initial values in revision "quote",
\* whose records have neither)
Snapshot(id) ==
  [id |-> id,
   name |-> projectName,
   filePreview |-> filePreview,
   fileName |-> file,
   roomType |-> roomType,
   style |-> style,
   region |-> region,
   scope |-> scope,
   quote |-> quote,
   generatedImage |-> generatedImage,
   overheadPercent |-> overheadPercent,
   contingencyPercent |-> contingencyPercent]

\* saveProject past its guard
saveProject ==
  /\ EditorShown
  /\ Settled
  /\ SaveEnabled
  /\ SaveAccepted
  /\ LET id == IF currentProjectId # 0 THEN currentProjectId ELSE now
         newProject == Snapshot(id)
         otherProjects == WithoutId(savedProjects, id)
     IN  /\ Len(otherProjects) < MaxProjects
         /\ savedProjects' = SortedInsert(otherProjects, newProject)
         /\ currentProjectId' = id
         /\ now' = IF currentProjectId # 0 THEN now ELSE now + 1
  /\ storedProjects' = Some(StringifyProjects(savedProjects'))
  /\ edits' = edits + 1
  /\ UNCHANGED <<revision, download, authVars, roomVars, theme, storedRates, storedTheme, formVars, pctVars, genVars, editVars, quote, effectDeps>>

\* handleLoadProject with the "-- Start a New Project --" option
NewProject ==
  /\ EditorShown
  /\ Settled
  /\ currentProjectId # 0
  /\ projectName' = ""
  /\ file' = "null"
  /\ filePreview' = "null"
  /\ region' = "QC_MONTREAL"
  /\ scope' = ""
  /\ quote' = None
  /\ generatedImage' = "null"
  /\ currentProjectId' = 0
  /\ error' = "null"
  /\ overheadPercent' = InitialOverhead(revision)
  /\ contingencyPercent' = InitialContingency
  /\ roomType' = "Kitchen"
  /\ style' = "Modern"
  /\ edits' = edits + 1
  /\ UNCHANGED <<revision, download, authVars, storeVars, reader, isQuoteLoading, isRenderLoading, quoteCall, renderCall,
                 savedProjects, now, editVars, effectDeps>>

\* JavaScript `x ?? d` on a stored number
OrDefault(x, d) == IF x = JsonNull THEN d ELSE x

\* Taking a saved project off the list when it is loaded (what
\* handleLoadProject must differ from).
TakeProject(i) ==
  /\ EditorShown
  /\ Settled
  /\ i \in 1..Len(savedProjects)
  /\ savedProjects[i].id # currentProjectId
  /\ projectName' = savedProjects[i].name
  /\ file' = "null"
  /\ filePreview' = savedProjects[i].filePreview
  /\ region' = savedProjects[i].region
  /\ scope' = savedProjects[i].scope
  /\ quote' = savedProjects[i].quote
  /\ generatedImage' = savedProjects[i].generatedImage
  /\ currentProjectId' = savedProjects[i].id
  /\ error' = "null"
  /\ overheadPercent' = savedProjects[i].overheadPercent
  /\ contingencyPercent' = savedProjects[i].contingencyPercent
  /\ roomType' = savedProjects[i].roomType
  /\ style' = savedProjects[i].style
  /\ savedProjects' = WithoutId(savedProjects, savedProjects[i].id)
  /\ edits' = edits + 1
  /\ UNCHANGED <<revision, download, authVars, storeVars, reader, isQuoteLoading, isRenderLoading, quoteCall,
                 renderCall, now, editVars, effectDeps>>

\* handleLoadProject with the option of a saved project
handleLoadProject(i) ==
  /\ EditorShown
  /\ Settled
  /\ i \in 1..Len(savedProjects)
  /\ savedProjects[i].id # currentProjectId
  /\ LET projectToLoad == savedProjects[i]
     IN  /\ projectName' = projectToLoad.name
         /\ file' = "null"
         /\ filePreview' = projectToLoad.filePreview
         /\ region' = projectToLoad.region
         /\ scope' = projectToLoad.scope
         /\ quote' = projectToLoad.quote
         /\ generatedImage' = projectToLoad.generatedImage
         /\ currentProjectId' = projectToLoad.id
         /\ error' = "null"
         /\ overheadPercent' = OrDefault(projectToLoad.overheadPercent,
                                         InitialOverhead(revision))
         /\ contingencyPercent' = OrDefault(projectToLoad.contingencyPercent,
                                            InitialContingency)
         /\ roomType' = projectToLoad.roomType
         /\ style' = projectToLoad.style
  /\ edits' = edits + 1
  /\ UNCHANGED <<revision, download, authVars, storeVars, reader, isQuoteLoading, isRenderLoading, quoteCall, renderCall,
                 savedProjects, now, editVars, effectDeps>>

\* The page is loaded again: the component is mounted with its useState
\* initial values, the calls of the previous page are gone with it, and the
\* startup effect reads localStorage (the rate book in revision "quote" only).
\* JSON.parse gives back what JSON.stringify wrote, null numbers included.
Reload ==
  /\ projectName' = ""
  /\ file' = "null"
  /\ filePreview' = "null"
  /\ reader' = "idle"
  /\ region' = "QC_MONTREAL"
  /\ scope' = ""
  /\ isQuoteLoading' = FALSE
  /\ isRenderLoading' = FALSE
  /\ error' = "null"
  /\ quote' = None
  /\ generatedImage' = "null"
  /\ currentProjectId' = 0
  /\ rateAdjustPercent' = Num(5)
  /\ bumpPercent' = "10"
  /\ overheadPercent' = InitialOverhead(revision)
  /\ contingencyPercent' = InitialContingency
  /\ targetTotal' = ""
  /\ effectDeps' = <<InitialOverhead(revision), InitialContingency, "QC_MONTREAL">>
  /\ quoteCall' = None
  /\ renderCall' = None
  /\ roomType' = "Kitchen"
  /\ style' = "Modern"
  /\ savedProjects' = IF storedProjects # None THEN storedProjects[1] ELSE <<>>
  /\ contractorRates' = IF revision = "quote" /\ storedRates # None
                        THEN storedRates[1] ELSE {}
  /\ theme' = IF storedTheme # None THEN storedTheme[1] ELSE "dark"
  /\ isAuthenticated' = (revision = "quote" => sessionAuth)
  /\ loginError' = ""
  /\ UNCHANGED <<edits, revision, download, sessionAuth, now, storedProjects, storedRates,
                 storedTheme>>

\* ---------------------------------------------------------- quote editing
\* Replacing the line items without recalculating the summary (what SetQuote
\* must differ from).
SetItemsOnly(items) ==
  /\ ItemsFit(items)
  /\ quote' = Some([lineItems |-> items, summary |-> quote[1].summary])
  /\ edits' = IF quote' = quote THEN edits ELSE edits + 1

\* setQuote(recalculateQuote(items)) in the current render
SetQuote(items) ==
  /\ ItemsFit(items)
  /\ quote' = Some(recalculateQuote(items, "", overheadPercent, contingencyPercent,
                                    region, QuoteDisclaimer(quote)))
  /\ edits' = IF quote' = quote THEN edits ELSE edits + 1

Fields == {"item", "quantity", "unit", "rate", "total"}

\* what the user can type into a cell of the given column
CellInputs(field) ==
  CASE field = "item" -> {"Trim", "paint ", " "}
    [] field = "unit" -> {"each"}
    [] field = "quantity" -> {"", "0", "2"}
    [] field = "rate" -> {"", "3"}
    [] field = "total" -> {"", "10"}

\* Writing the cell without deriving total or rate from it (what ChangedItem
\* must differ from).
FieldOnly(it, field, value) ==
  IF field \in {"item", "unit"} THEN [it EXCEPT ![field] = value]
  ELSE IF ~isNaN(parseFloat(value)) THEN [it EXCEPT ![field] = parseFloat(value)]
  ELSE it

\* handleItemChange: itemToUpdate after the edit of `field` to `value`
ChangedItem(it, field, value) ==
  LET numValue == parseFloat(value)
      set == IF field \in {"item", "unit"} THEN [it EXCEPT ![field] = value]
             ELSE IF ~isNaN(numValue) THEN [it EXCEPT ![field] = numValue]
             ELSE it
  IN  IF field \in {"quantity", "rate"}
      THEN [set EXCEPT !.total = Mul(set.quantity, set.rate)]
      ELSE IF field = "total" /\ ~IsZero(set.quantity)
      THEN [set EXCEPT !.rate = Div(set.total, set.quantity)]
      ELSE set

handleItemChange(index, field, value) ==
  /\ EditorShown
  /\ Settled
  /\ HasQuote
  /\ index \in 1..Len(quote[1].lineItems)
  /\ SetQuote([quote[1].lineItems EXCEPT
                 ![index] = ChangedItem(quote[1].lineItems[index], field, value)])
  /\ UNCHANGED <<revision, download, authVars, roomVars, storeVars, formVars, pctVars, genVars, projVars, editVars, effectDeps>>

\* direction === 'up' ? 1 + (percentage / 100) : 1 - (percentage / 100)
\* Bumping upward in both directions (what Multiplier must differ from).
AlwaysUp(direction, percentage) == Add(One, Div(percentage, Hundred))

Multiplier(direction, percentage) ==
  IF direction = "up"
  THEN Add(One, Div(percentage, Hundred))
  ELSE Add(One, Mul(Num(-1), Div(percentage, Hundred)))

\* Changing the rate and keeping the total (what Rerated must differ from).
RateOnly(it, newRate) == [it EXCEPT !.rate = newRate]

\* { ...item, rate: newRate, total: item.quantity * newRate }
Rerated(it, newRate) ==
  [it EXCEPT !.rate = newRate, !.total = Mul(it.quantity, newRate)]

\* onChange of the "Adjust All By" input (revision "quote"):
\* setRateAdjustPercent(parseFloat(e.target.value) || 0)
setRateAdjustPercent(s) ==
  /\ EditorShown
  /\ Settled
  /\ revision = "quote"
  /\ HasQuote
  /\ rateAdjustPercent' = OrZero(parseFloat(s))
  /\ edits' = IF rateAdjustPercent' = rateAdjustPercent THEN edits ELSE edits + 1
  /\ UNCHANGED <<revision, download, authVars, roomVars, storeVars, formVars, pctVars, genVars, projVars, bumpPercent,
                 contractorRates, targetTotal, quote, effectDeps>>

\* handleRateAdjust (revision "quote")
handleRateAdjust(index, direction) ==
  /\ EditorShown
  /\ Settled
  /\ revision = "quote"
  /\ HasQuote
  /\ index \in 1..Len(quote[1].lineItems)
  /\ ~isNaN(rateAdjustPercent)
  /\ LET it == quote[1].lineItems[index]
         newRate == Mul(it.rate, Multiplier(direction, rateAdjustPercent))
     IN  SetQuote([quote[1].lineItems EXCEPT ![index] = Rerated(it, newRate)])
  /\ UNCHANGED <<revision, download, authVars, roomVars, storeVars, formVars, pctVars, genVars, projVars, editVars, effectDeps>>

\* lineItems.map(item => rerated by multiplier)
BumpedItems(items, multiplier) ==
  [i \in 1..Len(items) |-> Rerated(items[i], Mul(items[i].rate, multiplier))]

\* handleGlobalRateAdjust (revision "quote")
handleGlobalRateAdjust(direction) ==
  /\ EditorShown
  /\ Settled
  /\ revision = "quote"
  /\ HasQuote
  /\ ~isNaN(rateAdjustPercent)
  /\ SetQuote(BumpedItems(quote[1].lineItems, Multiplier(direction, rateAdjustPercent)))
  /\ UNCHANGED <<revision, download, authVars, roomVars, storeVars, formVars, pctVars, genVars, projVars, editVars, effectDeps>>

\* onChange of the bump input (revision "render"): setBumpPercent(e.target.value)
setBumpPercent(s) ==
  /\ EditorShown
  /\ Settled
  /\ revision = "render"
  /\ HasQuote
  /\ bumpPercent' = s
  /\ edits' = IF bumpPercent' = bumpPercent THEN edits ELSE edits + 1
  /\ UNCHANGED <<revision, download, authVars, roomVars, storeVars, formVars, pctVars, genVars, projVars, rateAdjustPercent,
                 contractorRates, targetTotal, quote, effectDeps>>

\* handleBump (revision "render")
handleBump(direction) ==
  /\ EditorShown
  /\ Settled
  /\ revision = "render"
  /\ HasQuote
  /\ ~isNaN(parseFloat(bumpPercent))
  /\ SetQuote(BumpedItems(quote[1].lineItems,
                          Multiplier(direction, parseFloat(bumpPercent))))
  /\ UNCHANGED <<revision, download, authVars, roomVars, storeVars, formVars, pctVars, genVars, projVars, editVars, effectDeps>>

NewItem == LineItem("New Item", Num(1), "each", Zero, Zero)

addManualItem ==
  /\ EditorShown
  /\ Settled
  /\ HasQuote
  /\ Len(quote[1].lineItems) < MaxItems
  /\ SetQuote(Append(quote[1].lineItems, NewItem))
  /\ UNCHANGED <<revision, download, authVars, roomVars, storeVars, formVars, pctVars, genVars, projVars, editVars, effectDeps>>

\* lineItems.filter((_, index) => index !== indexToRemove)
Removed(items, indexToRemove) ==
  SubSeq(items, 1, indexToRemove - 1) \o SubSeq(items, indexToRemove + 1, Len(items))

handleRemoveItem(indexToRemove) ==
  /\ EditorShown
  /\ Settled
  /\ HasQuote
  /\ indexToRemove \in 1..Len(quote[1].lineItems)
  /\ SetQuote(Removed(quote[1].lineItems, indexToRemove))
  /\ UNCHANGED <<revision, download, authVars, roomVars, storeVars, formVars, pctVars, genVars, projVars, editVars, effectDeps>>

\* what the user can type into the "Set new total" input
TargetInputs == {"113", "4599", "-100"}

\* onChange of the "Set new total" input (revision "quote")
setTargetTotal(s) ==
  /\ EditorShown
  /\ Settled
  /\ revision = "quote"
  /\ HasQuote
  /\ targetTotal' = s
  /\ edits' = IF targetTotal' = targetTotal THEN edits ELSE edits + 1
  /\ UNCHANGED <<revision, download, authVars, roomVars, storeVars, formVars, pctVars, genVars, projVars, rateAdjustPercent,
                 bumpPercent, contractorRates, quote, effectDeps>>

\* handleBottomLineAdjust: (newTotal / taxMultiplier) / preTaxMultiplier
TargetSubtotal(newTotal, oh, ct, reg) ==
  LET preTaxMultiplier == Add(Add(One, Div(oh, Hundred)), Div(ct, Hundred))
      taxMultiplier == Add(One, Div(TAX_RATES(reg), Hundred))
  IN  Div(Div(newTotal, taxMultiplier), preTaxMultiplier)

\* lineItems.map(item => ({...item, rate: item.rate * r, total: item.total * r}))
ScaledItems(items, adjustmentRatio) ==
  [i \in 1..Len(items) |->
     [items[i] EXCEPT !.rate = Mul(items[i].rate, adjustmentRatio),
                      !.total = Mul(items[i].total, adjustmentRatio)]]

\* Rejecting without the test of the subtotal (what AdjustRejected must differ
\* from).
RejectedByTargetOnly ==
  \/ ~HasQuote
  \/ isNaN(parseFloat(targetTotal))
  \/ LeqZero(parseFloat(targetTotal))

\* the guards of handleBottomLineAdjust that reject the entered target
AdjustRejected ==
  \/ ~HasQuote
  \/ isNaN(parseFloat(targetTotal))
  \/ LeqZero(parseFloat(targetTotal))
  \/ IsZero(quote[1].summary.subtotal)

\* handleBottomLineAdjust (revision "quote"): onBlur / Enter of the input
handleBottomLineAdjust ==
  /\ EditorShown
  /\ Settled
  /\ revision = "quote"
  /\ HasQuote
  /\ IF AdjustRejected
     THEN /\ UNCHANGED quote
          /\ edits' = IF targetTotal = "" THEN edits ELSE edits + 1
     ELSE LET targetSubtotal == TargetSubtotal(parseFloat(targetTotal), overheadPercent,
                                               contingencyPercent, region)
              adjustmentRatio == Div(targetSubtotal, quote[1].summary.subtotal)
          IN  /\ Fits(targetSubtotal)
              /\ SetQuote(ScaledItems(quote[1].lineItems, adjustmentRatio))
  /\ targetTotal' = ""
  /\ UNCHANGED <<revision, download, authVars, roomVars, storeVars, formVars, pctVars, genVars, projVars, rateAdjustPercent,
                 bumpPercent, contractorRates, effectDeps>>

\* --------------------------------------------------------------- rate book
HasRate(key) == \E e \in contractorRates : e.key = key
RateOf(key) == CHOOSE e \in contractorRates : e.key = key

\* saveContractorRate (revision "quote"): the button of a row whose key is
\* not in the rate book
saveContractorRate(index) ==
  /\ EditorShown
  /\ Settled
  /\ revision = "quote"
  /\ HasQuote
  /\ index \in 1..Len(quote[1].lineItems)
  /\ LET itemToSave == quote[1].lineItems[index]
         key == KeyOf(itemToSave.item)
     IN  /\ ~HasRate(key)
         /\ IF key = ""
            THEN UNCHANGED <<contractorRates, storedRates>>
            ELSE /\ contractorRates' = contractorRates \cup
                      {[key |-> key, rate |-> itemToSave.rate, unit |-> itemToSave.unit]}
                 /\ storedRates' = Some(StringifyRates(contractorRates'))
  /\ edits' = IF contractorRates' = contractorRates THEN edits ELSE edits + 1
  /\ UNCHANGED <<revision, download, authVars, roomVars, theme, storedProjects, storedTheme, formVars, pctVars, genVars, projVars, rateAdjustPercent,
                 bumpPercent, targetTotal, quote, effectDeps>>

\* removeContractorRate (revision "quote"): the button of a row whose key is
\* in the rate book
removeContractorRate(index) ==
  /\ EditorShown
  /\ Settled
  /\ revision = "quote"
  /\ HasQuote
  /\ index \in 1..Len(quote[1].lineItems)
  /\ LET key == KeyOf(quote[1].lineItems[index].item)
     IN  /\ HasRate(key)
         /\ contractorRates' = {e \in contractorRates : e.key # key}
  /\ storedRates' = Some(StringifyRates(contractorRates'))
  /\ edits' = IF contractorRates' = contractorRates THEN edits ELSE edits + 1
  /\ UNCHANGED <<revision, download, authVars, roomVars, theme, storedProjects, storedTheme, formVars, pctVars, genVars, projVars, rateAdjustPercent,
                 bumpPercent, targetTotal, quote, effectDeps>>

\* The lower-case names that every object inherits from Object.prototype:
\* contractorRates[key] is a function or an object for them, which is truthy.
InheritedKeys == {"constructor", "__proto__"}

\* applyContractorRates: the mapped line items.  `if (contractorRates[key])`
\* is true for a key of the rate book and for an inherited name; for the
\* latter saved.rate and saved.unit are undefined ("undefined" stands for
\* the undefined unit) and quantity * undefined is NaN.
RatedItems(items, rates) ==
  [i \in 1..Len(items) |->
     LET key == KeyOf(items[i].item)
     IN  IF \E e \in rates : e.key = key
         THEN LET saved == CHOOSE e \in rates : e.key = key
              IN  [items[i] EXCEPT !.rate = saved.rate,
                                   !.unit = saved.unit,
                                   !.total = Mul(items[i].quantity, saved.rate)]
         ELSE IF key \in InheritedKeys
         THEN [items[i] EXCEPT !.rate = Undefined, !.unit = "undefined", !.total = NaN]
         ELSE items[i]]

\* applyContractorRates (revision "quote")
applyContractorRates ==
  /\ EditorShown
  /\ Settled
  /\ revision = "quote"
  /\ HasQuote
  /\ contractorRates # {}
  /\ SetQuote(RatedItems(quote[1].lineItems, contractorRates))
  /\ UNCHANGED <<revision, download, authVars, roomVars, storeVars, formVars, pctVars, genVars, projVars, editVars, effectDeps>>

\* ------------------------------------------------------------- the export
\* The export builds text by joining strings and reads nothing back, so here
\* a string is the sequence of its characters.
Chars(s) ==
  CASE s = "Paint" -> <<"P", "a", "i", "n", "t">>
    [] s = "Caulk" -> <<"C", "a", "u", "l", "k">>
    [] s = "New Item" -> <<"N", "e", "w", " ", "I", "t", "e", "m">>
    [] s = "Trim, caulk" -> <<"T", "r", "i", "m", ",", " ", "c", "a", "u", "l", "k">>
    [] s = "Door #2" -> <<"D", "o", "o", "r", " ", "#", "2">>
    [] s = "sqft" -> <<"s", "q", "f", "t">>
    [] s = "lf" -> <<"l", "f">>
    [] s = "each" -> <<"e", "a", "c", "h">>
    [] s = "Item" -> <<"I", "t", "e", "m">>
    [] s = "Quantity" -> <<"Q", "u", "a", "n", "t", "i", "t", "y">>
    [] s = "Unit" -> <<"U", "n", "i", "t">>
    [] s = "Rate" -> <<"R", "a", "t", "e">>
    [] s = "Total" -> <<"T", "o", "t", "a", "l">>
    [] s = "Subtotal" -> <<"S", "u", "b", "t", "o", "t", "a", "l">>
    [] s = "Overhead (" -> <<"O", "v", "e", "r", "h", "e", "a", "d", " ", "(">>
    [] s = "Contingency (" ->
         <<"C", "o", "n", "t", "i", "n", "g", "e", "n", "c", "y", " ", "(">>
    [] s = "Tax (" -> <<"T", "a", "x", " ", "(">>
    [] s = "%)" -> <<"%", ")">>
    [] s = "Grand Total" -> <<"G", "r", "a", "n", "d", " ", "T", "o", "t", "a", "l">>
    [] s = "NaN" -> <<"N", "a", "N">>
    [] s = "Infinity" -> <<"I", "n", "f", "i", "n", "i", "t", "y">>
    [] s = "" -> <<>>

Digit(d) == <<"0", "1", "2", "3", "4", "5", "6", "7", "8", "9">>[d + 1]

\* the decimal digits of a natural number
RECURSIVE Digits(_)
Digits(n) == IF n < 10 THEN <<Digit(n)>> ELSE Digits(n \div 10) \o <<Digit(n % 10)>>

\* "-" for a negative number
SignChars(x) == IF x[1] < 0 THEN <<"-">> ELSE <<>>

\* Number.prototype.toFixed(2): the nearest number of hundredths, the larger
\* one on a tie, written with two decimals
toFixed2(x) ==
  IF isNaN(x) THEN Chars("NaN")
  ELSE IF ~isFinite(x) THEN SignChars(x) \o Chars("Infinity")
  ELSE LET hundredths == (200 * Abs(x[1]) + x[2]) \div (2 * x[2])
       IN  SignChars(x) \o Digits(hundredths \div 100) \o <<".">>
             \o <<Digit((hundredths \div 10) % 10), Digit(hundredths % 10)>>

\* the decimals of r / d after the point, for a fraction that terminates
RECURSIVE FractionDigits(_, _)
FractionDigits(r, d) ==
  IF r = 0 THEN <<>>
  ELSE <<Digit((10 * r) \div d)>> \o FractionDigits((10 * r) % d, d)

\* `${x}` of a number in a template literal
NumberToString(x) ==
  IF isNaN(x) THEN Chars("NaN")
  ELSE IF ~isFinite(x) THEN SignChars(x) \o Chars("Infinity")
  ELSE LET n == Abs(x[1])
       IN  SignChars(x) \o Digits(n \div x[2])
             \o (IF n % x[2] = 0 THEN <<>>
                 ELSE <<".">> \o FractionDigits(n % x[2], x[2]))

\* Array.prototype.join(sep) on strings
RECURSIVE Join(_, _)
Join(strings, sep) ==
  IF strings = <<>> THEN <<>>
  ELSE IF Len(strings) = 1 THEN strings[1]
  ELSE strings[1] \o sep \o Join(Tail(strings), sep)

\* one line of the export for a line item
CsvRow(it) ==
  Join(<<Chars(it.item), toFixed2(it.quantity), Chars(it.unit), toFixed2(it.rate),
         toFixed2(it.total)>>, <<",">>)

CsvHeaders == <<Chars("Item"), Chars("Quantity"), Chars("Unit"), Chars("Rate"), Chars("Total")>>

\* the labels of the five summary lines
SummaryLabels(oh, ct, reg) ==
  <<Chars("Subtotal"),
    Chars("Overhead (") \o NumberToString(oh) \o Chars("%)"),
    Chars("Contingency (") \o NumberToString(ct) \o Chars("%)"),
    Chars("Tax (") \o NumberToString(TAX_RATES(reg)) \o Chars("%)"),
    Chars("Grand Total")>>

\* csvContent after the "data:text/csv;charset=utf-8," prefix
CsvContent(q, oh, ct, reg) ==
  LET rows == [i \in 1..Len(q.lineItems) |-> CsvRow(q.lineItems[i])]
      labels == SummaryLabels(oh, ct, reg)
      amounts == <<q.summary.subtotal, q.summary.overhead, q.summary.contingency,
                   q.summary.tax, q.summary.grandTotal>>
      summaryLines == [i \in 1..5 |-> labels[i] \o <<",">> \o toFixed2(amounts[i]) \o <<"\n">>]
  IN  Join(CsvHeaders, <<",">>) \o <<"\n">> \o Join(rows, <<"\n">>)
        \o <<"\n", "\n">> \o Join(summaryLines, <<>>)

\* encodeURI: what it does to one character of the export
EscapeChar(c) ==
  CASE c = " " -> <<"%", "2", "0">>
    [] c = "\n" -> <<"%", "0", "A">>
    [] c = "%" -> <<"%", "2", "5">>
    [] OTHER -> <<c>>

\* encodeURI: every character escaped in place (computed by halves)
RECURSIVE encodeURI(_)
encodeURI(cs) ==
  IF cs = <<>> THEN <<>>
  ELSE IF Len(cs) = 1 THEN EscapeChar(cs[1])
  ELSE LET half == Len(cs) \div 2
       IN  encodeURI(SubSeq(cs, 1, half)) \o encodeURI(SubSeq(cs, half + 1, Len(cs)))

\* exportCSV: the link that is clicked
exportCSV ==
  /\ EditorShown
  /\ Settled
  /\ revision \in Revisions
  /\ HasQuote
  /\ download = None
  /\ download' = Some([name |-> projectName \o "_quote.csv",
                       mediaType |-> "text/csv;charset=utf-8",
                       data |-> encodeURI(CsvContent(quote[1], overheadPercent,
                                                     contingencyPercent, region))])
  /\ UNCHANGED <<edits, revision, authVars, roomVars, storeVars, formVars, pctVars, genVars,
                 projVars, editVars, quote, effectDeps>>

\* The file the browser writes for a clicked data: link: the data of the URL
\* up to its fragment, with the percent escapes undone.
BeforeFragment(cs) ==
  IF \E i \in 1..Len(cs) : cs[i] = "#"
  THEN SubSeq(cs, 1, (CHOOSE i \in 1..Len(cs) :
                        cs[i] = "#" /\ \A j \in 1..(i - 1) : cs[j] # "#") - 1)
  ELSE cs

Unescape(a, b) ==
  CASE a = "2" /\ b = "0" -> " "
    [] a = "0" /\ b = "A" -> "\n"
    [] a = "2" /\ b = "5" -> "%"

\* the characters lo..hi of cs with the percent escapes undone (computed by
\* halves); the two characters after a "%" belong to its escape
RECURSIVE DecodeRange(_, _, _)
DecodeRange(cs, lo, hi) ==
  IF lo > hi THEN <<>>
  ELSE IF lo = hi
       THEN IF (lo > 1 /\ cs[lo - 1] = "%") \/ (lo > 2 /\ cs[lo - 2] = "%") THEN <<>>
            ELSE IF cs[lo] = "%" /\ lo + 2 <= Len(cs) THEN <<Unescape(cs[lo + 1], cs[lo + 2])>>
            ELSE <<cs[lo]>>
  ELSE LET mid == (lo + hi) \div 2
       IN  DecodeRange(cs, lo, mid) \o DecodeRange(cs, mid + 1, hi)

PercentDecode(cs) == DecodeRange(cs, 1, Len(cs))

Downloaded(link) == PercentDecode(BeforeFragment(link.data))

\* ------------------------------------------------------------ specification
Directions == {"up", "down"}

\* The user fills in the form: project name, photo, scope of work.
FillForm(names, scopes) ==
  \/ \E n \in names : setProjectName(n)
  \/ \E f \in Files : handleFileChange(f)
  \/ ReaderLoadEnd
  \/ \E s \in scopes : setScope(s)

\* The user changes region, overhead % or contingency %, while fewer than b
\* counted actions have happened.
ChangeRates(b, overheadInputs, contingencyInputs) ==
  \/ \E r \in Regions : edits < b /\ setRegion(r)
  \/ \E s \in overheadInputs : edits < b /\ setOverheadPercent(s)
  \/ \E s \in contingencyInputs : edits < b /\ setContingencyPercent(s)

\* A quote request and its outcome.
RequestQuote ==
  \/ generateQuote
  \/ \E reply \in QuoteReplies : QuoteResponse(reply)
  \/ \E msg \in FailureMessages : QuoteFailure(msg)

\* The user edits the line items of the quote.
EditItems(b) ==
  \/ \E i \in 1..MaxItems, f \in Fields :
       \E v \in CellInputs(f) : edits < b /\ handleItemChange(i, f, v)
  \/ edits < b /\ addManualItem
  \/ \E i \in 1..MaxItems : edits < b /\ handleRemoveItem(i)

\* The user adjusts rates: per item or all (revision "quote"), bump (revision "render").
AdjustRates(b) ==
  \/ \E s \in {""} : edits < b /\ setRateAdjustPercent(s)
  \/ \E i \in 1..MaxItems, d \in Directions : edits < b /\ handleRateAdjust(i, d)
  \/ \E d \in Directions : edits < b /\ handleGlobalRateAdjust(d)
  \/ \E s \in {""} : edits < b /\ setBumpPercent(s)
  \/ \E d \in Directions : edits < b /\ handleBump(d)

\* The user sets a target grand total (revision "quote").
AdjustTotal(b) ==
  \/ \E s \in TargetInputs : edits < b /\ setTargetTotal(s)
  \/ edits < b /\ handleBottomLineAdjust

\* The user keeps and applies a rate book (revision "quote").
RateBook(b) ==
  \/ \E i \in 1..MaxItems : edits < b /\ saveContractorRate(i)
  \/ \E i \in 1..MaxItems : edits < b /\ removeContractorRate(i)
  \/ edits < b /\ applyContractorRates

\* A render request and its outcome (revision "render").
RequestRender ==
  \/ generateRender
  \/ \E img \in RenderImages : RenderResponse(img)
  \/ \E msg \in FailureMessages : RenderFailure(msg)

\* The user saves the project, starts a new one or loads a saved one.
Projects(b) ==
  \/ edits < b /\ saveProject
  \/ edits < b /\ NewProject
  \/ \E i \in 1..MaxProjects : edits < b /\ handleLoadProject(i)

\* The quote editor: every operation on a displayed quote, saving and loading,
\* with the default percentages and region (so no recalculation is ever
\* pending).
NextEdit ==
  \/ Login
  \/ FillForm({"A"}, {"Repaint"})
  \/ generateQuote
  \/ \E reply \in QuoteReplies : QuoteResponse(reply)
  \/ EditItems(MaxEdits)
  \/ AdjustRates(MaxEdits)
  \/ AdjustTotal(MaxEdits)
  \/ RateBook(MaxEdits)
  \/ Projects(MaxEdits)

SpecEdit == Init /\ [][NextEdit]_vars

\* Setting a target grand total under every region and percentage.
NextTotals ==
  \/ Login
  \/ FillForm({"A"}, {"Repaint"})
  \/ generateQuote
  \/ \E reply \in QuoteReplies : QuoteResponse(reply)
  \/ RecalculateEffect
  \/ ChangeRates(MaxSessionEdits, {"", "-100"}, {""})
  \/ AdjustTotal(MaxSessionEdits)

SpecTotals == Init /\ [][NextTotals]_vars

\* A whole session: requests in flight, rate and region changes, saved
\* projects.
Next ==
  \/ Login
  \/ FillForm({"A"}, {"Repaint"})
  \/ RequestQuote
  \/ RecalculateEffect
  \/ ChangeRates(MaxSessionEdits, {""}, {""})
  \/ Projects(MaxSessionEdits)

Spec == Init /\ [][Next]_vars

\* Every operation of a session on a saved or loaded project: the editor,
\* region and percentage changes, new requests.
NextSession ==
  \/ NextEdit
  \/ \E msg \in FailureMessages : QuoteFailure(msg)
  \/ RecalculateEffect
  \/ ChangeRates(MaxEdits, {"0"}, {"0"})

SpecSession == Init /\ [][NextSession]_vars

\* The saved projects and localStorage: two project names, every operation
\* that could touch a saved record, theme, rate book and page reloads.
NextStore ==
  \/ Login
  \/ FillForm({"A", "B"}, {"Repaint"})
  \/ toggleTheme
  \/ generateQuote
  \/ \E reply \in QuoteReplies : QuoteResponse(reply)
  \/ \E i \in 1..MaxItems : edits < MaxStoreEdits /\ handleItemChange(i, "item", " ")
  \/ RateBook(MaxStoreEdits)
  \/ Projects(MaxStoreEdits)
  \/ Reload

SpecStore == Init /\ [][NextStore]_vars

\* Saving in every state of the form and of the results: the project name
\* may be emptied again, a quote or (revision "render") an image may be
\* present, and a saved project may have been loaded.
NextSave ==
  \/ Login
  \/ FillForm({"", "A"}, {"Repaint"})
  \/ RequestQuote
  \/ RequestRender
  \/ Projects(MaxStoreEdits)
  \/ Reload

SpecSave == Init /\ [][NextSave]_vars

\* The requests to the external model in the three revisions: validation,
\* the file read, every outcome of a request, and the form and rate changes
\* that decide what a request carries.
AllRevisions == Revisions \cup {"joint"}

\* useState initial value of region
InitialRegion(rev) == IF rev = "joint" THEN "ON_TORONTO" ELSE "QC_MONTREAL"

InitRequests ==
  /\ revision \in AllRevisions
  /\ projectName = ""
  /\ file = "null"
  /\ filePreview = "null"
  /\ reader = "idle"
  /\ region = InitialRegion(revision)
  /\ scope = ""
  /\ isQuoteLoading = FALSE
  /\ isRenderLoading = FALSE
  /\ error = "null"
  /\ quote = None
  /\ generatedImage = "null"
  /\ savedProjects = <<>>
  /\ currentProjectId = 0
  /\ rateAdjustPercent = Num(5)
  /\ bumpPercent = "10"
  /\ contractorRates = {}
  /\ overheadPercent = InitialOverhead(revision)
  /\ contingencyPercent = InitialContingency
  /\ targetTotal = ""
  /\ effectDeps = <<InitialOverhead(revision), InitialContingency, InitialRegion(revision)>>
  /\ quoteCall = None
  /\ renderCall = None
  /\ now = 1
  /\ roomType = "Kitchen"
  /\ style = "Modern"
  /\ theme = "dark"
  /\ storedProjects = None
  /\ storedRates = None
  /\ storedTheme = None
  /\ download = None
  /\ isAuthenticated = (revision # "quote")
  /\ sessionAuth = FALSE
  /\ loginError = ""
  /\ edits = 0

NextRequests ==
  \/ Login
  \/ FillForm({"", "A"}, {"Repaint"})
  \/ \E t \in RoomTypes : setRoomType(t)
  \/ \E st \in Styles : setStyle(st)
  \/ ChangeRates(MaxRequestEdits, {"0"}, {"0"})
  \/ RecalculateEffect
  \/ generateQuote
  \/ generateQuoteRejected
  \/ generateQuoteUnreadable
  \/ \E reply \in QuoteReplies : QuoteResponse(reply)
  \/ \E msg \in FailureMessages \cup ParseFailures \cup {UnknownError} : QuoteFailure(msg)
  \/ generateRender
  \/ generateRenderRejected
  \/ generateRenderUnreadable
  \/ \E img \in RenderImages : RenderResponse(img)
  \/ \E msg \in FailureMessages \cup {NoImageMessage} : RenderFailure(msg)
  \/ generateQuoteAndRenders
  \/ generateQuoteAndRendersRejected
  \/ generateQuoteAndRendersUnreadable
  \/ \E reply \in JointReplies, part \in RenderParts : JointResponse(reply, part)
  \/ \E msg \in FailureMessages \cup ParseFailures : JointFailure(msg)

SpecRequests == InitRequests /\ [][NextRequests]_vars

\* ------------------------------------------------------------------------
\* The generate handlers with an external model that answers or fails every
\* request: the continuation of an awaited request runs once the request has
\* settled.  The percentages and the region stay as they are, so no
\* recalculation is pending.
QuoteOutcome ==
  \/ \E msg \in FailureMessages \cup ParseFailures : QuoteFailure(msg)
  \/ \E reply \in QuoteReplies : QuoteResponse(reply)

RenderOutcome ==
  \/ \E img \in RenderImages : RenderResponse(img)
  \/ \E msg \in FailureMessages \cup {NoImageMessage} : RenderFailure(msg)

JointOutcome ==
  \/ \E reply \in JointReplies, part \in RenderParts : JointResponse(reply, part)
  \/ \E msg \in FailureMessages \cup ParseFailures : JointFailure(msg)

NextAnswered ==
  \/ Login
  \/ FillForm({"A"}, {"Repaint"})
  \/ generateQuote
  \/ generateQuoteUnreadable
  \/ QuoteOutcome
  \/ generateRender
  \/ generateRenderUnreadable
  \/ RenderOutcome
  \/ generateQuoteAndRenders
  \/ generateQuoteAndRendersUnreadable
  \/ JointOutcome

SpecAnswered ==
  /\ InitRequests
  /\ [][NextAnswered]_vars
  /\ WF_vars(QuoteOutcome)
  /\ WF_vars(RenderOutcome)
  /\ WF_vars(JointOutcome)

\* ------------------------------------------------------------------------
\* recalculateQuote as a function of its inputs: the component holds a quote
\* with any line items and any overhead %, contingency % and region, and the
\* recalculation of its render has not run yet.
CaulkItem == LineItem("Caulk", Num(3), "lf", <<10, 9>>, <<10, 3>>)
RecalcItems == {PaintItem, TrimItem, NewItem, CaulkItem}
RecalcLists == UNION {[1..n -> RecalcItems] : n \in 0..MaxItems}
RecalcPercents == {Zero, Num(5), <<15, 2>>, Num(10), Num(-100)}
StaleSummary(d) ==
  [subtotal |-> Zero, overhead |-> Zero, contingency |-> Zero, tax |-> Zero,
   grandTotal |-> Zero, disclaimer |-> d]

InitRecalc ==
  /\ revision \in Revisions
  /\ projectName = ""
  /\ file = "null"
  /\ filePreview = "null"
  /\ reader = "idle"
  /\ region \in Regions
  /\ scope = ""
  /\ isQuoteLoading = FALSE
  /\ isRenderLoading = FALSE
  /\ error = "null"
  /\ \E items \in RecalcLists, d \in {"", "Labor only."} :
       quote = Some([lineItems |-> items, summary |-> StaleSummary(d)])
  /\ generatedImage = "null"
  /\ savedProjects = <<>>
  /\ currentProjectId = 0
  /\ rateAdjustPercent = Num(5)
  /\ bumpPercent = "10"
  /\ contractorRates = {}
  /\ overheadPercent \in RecalcPercents
  /\ contingencyPercent \in RecalcPercents
  /\ targetTotal = ""
  /\ effectDeps = <<>>
  /\ quoteCall = None
  /\ renderCall = None
  /\ now = 1
  /\ roomType = "Kitchen"
  /\ style = "Modern"
  /\ theme = "dark"
  /\ storedProjects = None
  /\ storedRates = None
  /\ storedTheme = None
  /\ download = None
  /\ isAuthenticated = TRUE
  /\ sessionAuth = (revision = "quote")
  /\ loginError = ""
  /\ edits = 0

NextRecalc == RecalculateEffect

SpecRecalc == InitRecalc /\ [][NextRecalc]_vars

\* ------------------------------------------------------------------------
\* exportCSV as a function of the quote: the component holds a quote with any
\* line items, recalculated for its percentages and region.
CommaItem == LineItem("Trim, caulk", Num(2), "lf", Num(3), Num(6))
HashItem == LineItem("Door #2", Num(1), "each", <<25, 2>>, <<25, 2>>)
PlainItems == {PaintItem, NewItem, CaulkItem}
ExportItems == PlainItems \cup {CommaItem, HashItem}
ExportLists == UNION {[1..n -> ExportItems] : n \in 0..MaxItems}
ExportPercents == {Zero, <<15, 2>>, Num(10)}

InitExport ==
  /\ revision \in Revisions
  /\ projectName = "A"
  /\ file = "null"
  /\ filePreview = "null"
  /\ reader = "idle"
  /\ region \in Regions
  /\ scope = ""
  /\ isQuoteLoading = FALSE
  /\ isRenderLoading = FALSE
  /\ error = "null"
  /\ overheadPercent \in ExportPercents
  /\ contingencyPercent = InitialContingency
  /\ \E items \in ExportLists :
       quote = Some(recalculateQuote(items, "", overheadPercent, contingencyPercent,
                                     region, ""))
  /\ generatedImage = "null"
  /\ savedProjects = <<>>
  /\ currentProjectId = 0
  /\ rateAdjustPercent = Num(5)
  /\ bumpPercent = "10"
  /\ contractorRates = {}
  /\ targetTotal = ""
  /\ effectDeps = Deps
  /\ quoteCall = None
  /\ renderCall = None
  /\ now = 1
  /\ roomType = "Kitchen"
  /\ style = "Modern"
  /\ theme = "dark"
  /\ storedProjects = None
  /\ storedRates = None
  /\ storedTheme = None
  /\ download = None
  /\ isAuthenticated = TRUE
  /\ sessionAuth = (revision = "quote")
  /\ loginError = ""
  /\ edits = 0

NextExport == exportCSV

SpecExport == InitExport /\ [][NextExport]_vars

\* ------------------------------------------------------------------------
\* The bulk bump as a function of the quote and the percentage: the component
\* holds a quote with any line items, and the bump field any of its values.
BumpNumbers == {Zero, Num(5), Num(-100)}
BumpTexts == {"", "10", "-100"}

InitBump ==
  /\ revision \in Revisions
  /\ projectName = ""
  /\ file = "null"
  /\ filePreview = "null"
  /\ reader = "idle"
  /\ region \in Regions
  /\ scope = ""
  /\ isQuoteLoading = FALSE
  /\ isRenderLoading = FALSE
  /\ error = "null"
  /\ overheadPercent = InitialOverhead(revision)
  /\ contingencyPercent = InitialContingency
  /\ \E items \in RecalcLists :
       quote = Some(recalculateQuote(items, "", overheadPercent, contingencyPercent,
                                     region, ""))
  /\ generatedImage = "null"
  /\ savedProjects = <<>>
  /\ currentProjectId = 0
  /\ rateAdjustPercent \in IF revision = "quote" THEN BumpNumbers ELSE {Num(5)}
  /\ bumpPercent \in IF revision = "render" THEN BumpTexts ELSE {"10"}
  /\ contractorRates = {}
  /\ targetTotal = ""
  /\ effectDeps = Deps
  /\ quoteCall = None
  /\ renderCall = None
  /\ now = 1
  /\ roomType = "Kitchen"
  /\ style = "Modern"
  /\ theme = "dark"
  /\ storedProjects = None
  /\ storedRates = None
  /\ storedTheme = None
  /\ download = None
  /\ isAuthenticated = TRUE
  /\ sessionAuth = (revision = "quote")
  /\ loginError = ""
  /\ edits = 0

NextBump ==
  \/ \E d \in Directions : edits < MaxEdits /\ handleGlobalRateAdjust(d)
  \/ \E d \in Directions : edits < MaxEdits /\ handleBump(d)

SpecBump == InitBump /\ [][NextBump]_vars

\* ------------------------------------------------------------------------
\* applyContractorRates as a function of the quote and the rate book: the
\* component holds a quote with any line items and a rate book with any of
\* two saved rates.
LowerPaintItem == LineItem("paint ", Num(3), "each", Num(5), Num(15))
ConstructorItem == LineItem("Constructor", Num(2), "each", Num(10), Num(20))
RateItems == {PaintItem, TrimItem, NewItem, LowerPaintItem, ConstructorItem}
RateLists == UNION {[1..n -> RateItems] : n \in 0..MaxItems}
SavedRates == {[key |-> "paint", rate |-> Num(25), unit |-> "sqm"],
               [key |-> "trim", rate |-> <<7, 2>>, unit |-> "lf"]}

InitRates ==
  /\ revision = "quote"
  /\ projectName = "A"
  /\ file = "null"
  /\ filePreview = "null"
  /\ reader = "idle"
  /\ region \in Regions
  /\ scope = ""
  /\ isQuoteLoading = FALSE
  /\ isRenderLoading = FALSE
  /\ error = "null"
  /\ overheadPercent = InitialOverhead(revision)
  /\ contingencyPercent = InitialContingency
  /\ \E items \in RateLists :
       quote = Some(recalculateQuote(items, "", overheadPercent, contingencyPercent,
                                     region, ""))
  /\ generatedImage = "null"
  /\ savedProjects = <<>>
  /\ currentProjectId = 0
  /\ rateAdjustPercent = Num(5)
  /\ bumpPercent = "10"
  /\ contractorRates \in SUBSET SavedRates
  /\ targetTotal = ""
  /\ effectDeps = Deps
  /\ quoteCall = None
  /\ renderCall = None
  /\ now = 1
  /\ roomType = "Kitchen"
  /\ style = "Modern"
  /\ theme = "dark"
  /\ storedProjects = None
  /\ storedRates = IF contractorRates = {} THEN None ELSE Some(StringifyRates(contractorRates))
  /\ storedTheme = None
  /\ download = None
  /\ isAuthenticated = TRUE
  /\ sessionAuth = (revision = "quote")
  /\ loginError = ""
  /\ edits = 0

NextRates == edits < MaxEdits /\ applyContractorRates

SpecRates == InitRates /\ [][NextRates]_vars

\* The tax percentages the specification states for the three regions.
StatedTaxPct(r) ==
  CASE r = "QC_MONTREAL" -> Norm(14975, 1000)
    [] r = "ON_TORONTO" -> Num(13)
    [] r = "NYC" -> Norm(8875, 1000)

\* C1: for every list of line items, overhead %, contingency % and region,
\* the summary recalculateQuote returns has subtotal = sum of the totals,
\* overhead = subtotal * overhead%/100, contingency = subtotal *
\* contingency%/100, tax = (subtotal + overhead + contingency) * tax%/100
\* with the stated rate of the region, grandTotal = subtotal + overhead +
\* contingency + tax, and grandTotal = subtotal * (1 + overhead% +
\* contingency%) * (1 + tax%).
C1_RecalculateFormulas ==
  [][RecalculateEffect /\ HasQuote =>
       LET s == quote'[1].summary
           pct(x) == Div(x, Hundred)
           taxPct == StatedTaxPct(region)
       IN  /\ quote'[1].lineItems = quote[1].lineItems
           /\ s.subtotal = SumTotals(quote[1].lineItems)
           /\ s.overhead = Mul(s.subtotal, pct(overheadPercent))
           /\ s.contingency = Mul(s.subtotal, pct(contingencyPercent))
           /\ s.tax = Mul(Add(Add(s.subtotal, s.overhead), s.contingency), pct(taxPct))
           /\ s.grandTotal = Add(Add(Add(s.subtotal, s.overhead), s.contingency), s.tax)
           /\ s.grandTotal =
                Mul(Mul(s.subtotal,
                        Add(Add(One, pct(overheadPercent)), pct(contingencyPercent))),
                    Add(One, pct(taxPct)))]_vars

\* A quote of two items with different totals, recalculated under non-zero
\* overhead and contingency in New York.
C1_Witness ==
  /\ HasQuote /\ Settled
  /\ region = "NYC"
  /\ overheadPercent = <<15, 2>> /\ contingencyPercent = Num(5)
  /\ quote[1].lineItems = <<PaintItem, CaulkItem>>
  /\ quote[1].summary.subtotal = <<130, 3>>

\* ------------------------------------------------------------------------
\* The five amounts of a summary.
Amounts(s) == <<s.subtotal, s.overhead, s.contingency, s.tax, s.grandTotal>>

\* The amounts recomputed from the quote's line items and the current
\* overhead %, contingency % and region.
CurrentAmounts ==
  Amounts(recalculateQuote(quote[1].lineItems, "", overheadPercent,
                           contingencyPercent, region, "").summary)

\* C2: in every reachable state in which a quote is present and no
\* recalculation is pending, the summary of the quote equals the summary
\* recomputed from its line items, the current overhead % and contingency %
\* and the tax rate of the selected region.
C2_SummaryCurrent ==
  HasQuote /\ Settled => Amounts(quote[1].summary) = CurrentAmounts

\* C3: in every reachable state in which a quote is present, after any
\* sequence of generate, load, edit, add, remove, bump, rate-book and
\* set-grand-total operations, summary.subtotal is exactly the sum of the
\* total fields of the quote's line items.
C3_SubtotalIsSum ==
  HasQuote => quote[1].summary.subtotal = SumTotals(quote[1].lineItems)

\* An edited quote of two items: the first item's total was set to 10.
C3_Witness ==
  /\ HasQuote
  /\ edits > 0
  /\ Len(quote[1].lineItems) = 2
  /\ quote[1].lineItems[1].total = Num(10)
  /\ quote[1].lineItems[2] = TrimItem
  /\ quote[1].summary.subtotal = Num(17)

\* ------------------------------------------------------------------------
\* The valid (numeric) inputs of a cell of the given column, and the invalid
\* ones.
ValidInputs(field) == {v \in CellInputs(field) : ~isNaN(parseFloat(v))}
InvalidInputs(field) == {v \in CellInputs(field) : isNaN(parseFloat(v))}

\* A step of handleItemChange(index, field, value).  The conjuncts before the
\* action are implied by it: they only spare evaluating the recalculation
\* on the steps of other operations.
ItemChanged(index, field, value) ==
  /\ HasQuote /\ quote' # None
  /\ index \in 1..Len(quote[1].lineItems)
  /\ quote'[1].lineItems =
       [quote[1].lineItems EXCEPT
          ![index] = ChangedItem(quote[1].lineItems[index], field, value)]
  /\ handleItemChange(index, field, value)

\* The items other than the one at `index` are the same in quote and quote'.
OthersUnchanged(index) ==
  /\ Len(quote'[1].lineItems) = Len(quote[1].lineItems)
  /\ \A j \in 1..Len(quote[1].lineItems) :
       j # index => quote'[1].lineItems[j] = quote[1].lineItems[j]

\* C4: handleItemChange on field quantity or rate with a valid number v sets
\* that field of the item at the index to v and the item's total to the
\* product of its new quantity and rate; the other line items are unchanged.
C4_QuantityRateEdit ==
  [][\A index \in 1..MaxItems, field \in {"quantity", "rate"} :
       \A v \in ValidInputs(field) :
         ItemChanged(index, field, v) =>
           LET old == quote[1].lineItems[index]
               new == quote'[1].lineItems[index]
           IN  /\ new[field] = parseFloat(v)
               /\ new.total = Mul(new.quantity, new.rate)
               /\ field = "quantity" => new.rate = old.rate
               /\ field = "rate" => new.quantity = old.quantity
               /\ new.item = old.item /\ new.unit = old.unit
               /\ OthersUnchanged(index)]_vars

\* The quantity of the first of two items was set to 0: its total is 0 and
\* the second item is as generated.
C4_Witness ==
  /\ HasQuote
  /\ edits = 1
  /\ quote[1].lineItems =
       <<LineItem("Paint", Zero, "sqft", Num(20), Zero), TrimItem>>

\* C5: handleItemChange on field total with a valid number v sets the item's
\* total to v; when the item's quantity is not 0 its rate becomes
\* v / quantity, and when the quantity is 0 the rate is left unchanged.
C5_TotalEdit ==
  [][\A index \in 1..MaxItems : \A v \in ValidInputs("total") :
       ItemChanged(index, "total", v) =>
         LET old == quote[1].lineItems[index]
             new == quote'[1].lineItems[index]
         IN  /\ new.total = parseFloat(v)
             /\ new.quantity = old.quantity
             /\ ~IsZero(old.quantity) => new.rate = Div(parseFloat(v), old.quantity)
             /\ IsZero(old.quantity) => new.rate = old.rate]_vars

\* Both cases have happened: the total of the first item was set to 10 while
\* its quantity was 0 (its rate is still 20), and the total of the second
\* while its quantity was 2 (its rate is now 5).
C5_Witness ==
  /\ HasQuote
  /\ edits = 3
  /\ quote[1].lineItems =
       <<LineItem("Paint", Zero, "sqft", Num(20), Num(10)),
         LineItem("Trim", Num(2), "lf", Num(5), Num(10))>>

\* ------------------------------------------------------------------------
\* total = quantity * rate (NaN is equal to nothing, as in JavaScript)
Consistent(it) == ~isNaN(it.total) /\ it.total = Mul(it.quantity, it.rate)

\* The item at place j after the step comes from an item that did not satisfy
\* total = quantity * rate before it: the item at the same place, or at the
\* next place when an item before it was removed.
FromInconsistent(j) ==
  \E k \in {j, j + 1} \cap (1..Len(quote[1].lineItems)) :
    /\ ~Consistent(quote[1].lineItems[k])
    /\ quote[1].lineItems[k].quantity = quote'[1].lineItems[j].quantity

\* The step edits the total of the item at `index`, whose quantity is 0.
TotalEditedAtZero(index) ==
  /\ index \in 1..Len(quote[1].lineItems)
  /\ IsZero(quote[1].lineItems[index].quantity)
  /\ \E v \in ValidInputs("total") : ItemChanged(index, "total", v)

\* The step is an operation of the quote editor.
EditorStep ==
  \/ \E i \in 1..MaxItems, f \in Fields : \E v \in CellInputs(f) : ItemChanged(i, f, v)
  \/ addManualItem
  \/ \E i \in 1..MaxItems : handleRemoveItem(i)
  \/ \E i \in 1..MaxItems, d \in Directions : handleRateAdjust(i, d)
  \/ \E d \in Directions : handleGlobalRateAdjust(d)
  \/ \E d \in Directions : handleBump(d)
  \/ applyContractorRates
  \/ handleBottomLineAdjust

C7_SetTotalReachesTarget ==
  [][/\ handleBottomLineAdjust
     /\ ~IsZero(quote[1].summary.subtotal)
     /\ ~isNaN(parseFloat(targetTotal))
     /\ ~LeqZero(parseFloat(targetTotal))
     => LET T == parseFloat(targetTotal)
            targetSubtotal ==
              Div(Div(T, Add(One, Div(TAX_RATES(region), Hundred))),
                  Add(Add(One, Div(overheadPercent, Hundred)),
                      Div(contingencyPercent, Hundred)))
            ratio == Div(targetSubtotal, quote[1].summary.subtotal)
        IN  /\ Len(quote'[1].lineItems) = Len(quote[1].lineItems)
            /\ \A j \in 1..Len(quote[1].lineItems) :
                 /\ quote'[1].lineItems[j].rate = Mul(quote[1].lineItems[j].rate, ratio)
                 /\ quote'[1].lineItems[j].total = Mul(quote[1].lineItems[j].total, ratio)
            /\ quote'[1].summary.grandTotal = T]_vars

\* ------------------------------------------------------------------------
\* The recalculation that runs because the region, and only the region,
\* changed in the last render.
RegionChangeRecalculated ==
  /\ RecalculateEffect
  /\ HasQuote
  /\ effectDeps # <<>>
  /\ effectDeps[1] = overheadPercent
  /\ effectDeps[2] = contingencyPercent
  /\ effectDeps[3] # region

\* C8: changing the region while a quote is present changes only the tax
\* rate used in the recalculation: line items, subtotal, overhead and
\* contingency after the change are those before it, and tax and grandTotal
\* are recomputed with the new region's rate.
C8_RegionChangeFrame ==
  [][RegionChangeRecalculated =>
       LET old == quote[1].summary
           new == quote'[1].summary
           preTax == Add(Add(old.subtotal, old.overhead), old.contingency)
       IN  /\ quote'[1].lineItems = quote[1].lineItems
           /\ new.subtotal = old.subtotal
           /\ new.overhead = old.overhead
           /\ new.contingency = old.contingency
           /\ new.tax = Mul(preTax, Div(TAX_RATES(region), Hundred))
           /\ new.grandTotal = Add(preTax, new.tax)]_vars

\* ------------------------------------------------------------------------
\* C9: an invalid (NaN) value entered in the quantity, rate or total cell of
\* a line item is ignored: handleItemChange with it leaves the item, every
\* other item and the summary as they were, and sets no error.
C9_InvalidCellIgnored ==
  [][\A index \in 1..MaxItems, field \in {"quantity", "rate", "total"} :
       \A v \in InvalidInputs(field) :
         ItemChanged(index, field, v) => quote' = quote /\ error' = error]_vars

\* ------------------------------------------------------------------------
InvalidPercents == {s \in NumberInputs : isNaN(parseFloat(s))}

\* C10 as stated: an invalid (NaN) value entered in the overhead % or the
\* contingency % field leaves the percentage as it was.
C10_InvalidPercentIgnored ==
  [][\A s \in InvalidPercents :
       /\ setOverheadPercent(s) => overheadPercent' = overheadPercent
       /\ setContingencyPercent(s) => contingencyPercent' = contingencyPercent]_vars

\* C10, amended: an invalid (NaN) value entered in the overhead % or the
\* contingency % field sets that percentage to 0 and leaves the other
\* percentage, the region and (until the recalculation) the quote as they
\* were; the recalculation that follows recomputes the summary with the
\* percentages then current, so that amount of the summary becomes 0.
C10_InvalidPercentIsZero ==
  [][/\ \A s \in InvalidPercents :
          /\ setOverheadPercent(s) =>
               /\ overheadPercent' = Zero
               /\ contingencyPercent' = contingencyPercent
               /\ region' = region /\ quote' = quote
          /\ setContingencyPercent(s) =>
               /\ contingencyPercent' = Zero
               /\ overheadPercent' = overheadPercent
               /\ region' = region /\ quote' = quote
     /\ RecalculateEffect /\ HasQuote =>
          /\ quote'[1].lineItems = quote[1].lineItems
          /\ Amounts(quote'[1].summary) = CurrentAmounts
          /\ IsZero(overheadPercent) /\ isFinite(quote[1].summary.subtotal)
               => IsZero(quote'[1].summary.overhead)
          /\ IsZero(contingencyPercent) /\ isFinite(quote[1].summary.subtotal)
               => IsZero(quote'[1].summary.contingency)]_vars

\* The overhead % field was cleared and the summary recalculated: overhead is
\* 0 on a non-zero subtotal, contingency is still 5 %.
C10_Witness ==
  /\ HasQuote /\ Settled
  /\ overheadPercent = Zero
  /\ contingencyPercent = Num(5)
  /\ quote[1].summary.subtotal = Num(40)
  /\ quote[1].summary.overhead = Zero
  /\ quote[1].summary.contingency = Num(2)

\* ------------------------------------------------------------------------
\* C11: handleBottomLineAdjust is a no-op on the quote when it is rejected:
\* if the subtotal is 0, or the entered target is not a number or is <= 0,
\* the line items and the summary are unchanged (no infinite or NaN rate is
\* stored) and the target-total input is cleared.
C11_RejectedAdjustIsNoOp ==
  [][/\ handleBottomLineAdjust
     /\ \/ IsZero(quote[1].summary.subtotal)
        \/ isNaN(parseFloat(targetTotal))
        \/ LeqZero(parseFloat(targetTotal))
     => /\ quote' = quote
        /\ targetTotal' = ""
        /\ \A j \in 1..Len(quote'[1].lineItems) :
             isFinite(quote'[1].lineItems[j].rate)]_vars

\* The quantity of the only item was set to 0 (subtotal 0), the target 113
\* was typed and committed: the quote is as before and the input is empty.
C11_Witness ==
  /\ HasQuote
  /\ edits = 3
  /\ quote[1].lineItems = <<LineItem("Paint", Zero, "sqft", Num(20), Zero)>>
  /\ IsZero(quote[1].summary.subtotal)
  /\ targetTotal = ""
  /\ rateAdjustPercent = Num(5)
  /\ contractorRates = {}
  /\ savedProjects = <<>>

\* the ids of the saved projects
SavedIds == {savedProjects[i].id : i \in 1..Len(savedProjects)}

\* the saved records other than the one with the given id
RecordsBut(projects, id) ==
  {projects[i] : i \in {j \in 1..Len(projects) : projects[j].id # id}}

\* C12: the saved-project list holds at most one record per id, and the
\* current project id, when set, is the id of a saved record.  A save with a
\* current project id replaces exactly the record of that id by the snapshot
\* of the session and keeps the number of records; a save without one adds
\* exactly one record, under an id no record had, which becomes the current
\* project id.  (Date.now() is taken to differ between two such saves.)
C12_OneRecordPerId ==
  /\ [](/\ \A i, j \in 1..Len(savedProjects) :
              savedProjects[i].id = savedProjects[j].id => i = j
        /\ currentProjectId # 0 => currentProjectId \in SavedIds)
  /\ [][/\ edits' = edits + 1
         /\ saveProject
         => IF currentProjectId # 0
            THEN /\ Len(savedProjects') = Len(savedProjects)
                 /\ currentProjectId' = currentProjectId
                 /\ \E i \in 1..Len(savedProjects') :
                      savedProjects'[i] = Snapshot(currentProjectId)
                 /\ RecordsBut(savedProjects', currentProjectId)
                      = RecordsBut(savedProjects, currentProjectId)
            ELSE /\ Len(savedProjects') = Len(savedProjects) + 1
                 /\ currentProjectId' \notin SavedIds
                 /\ \E i \in 1..Len(savedProjects') :
                      savedProjects'[i] = Snapshot(currentProjectId')
                 /\ RecordsBut(savedProjects', currentProjectId')
                      = {savedProjects[i] : i \in 1..Len(savedProjects)}]_vars

\* Project "B" was saved first, then "A" as a new project: two records,
\* sorted by name, the later one current.
C12_Witness ==
  /\ Len(savedProjects) = 2
  /\ savedProjects[1].name = "A" /\ savedProjects[1].id = 2
  /\ savedProjects[2].name = "B" /\ savedProjects[2].id = 1
  /\ currentProjectId = 2
\* C13: only saveProject changes the saved-project list: every step of any
\* other operation (item edit, add, remove, rate adjustment, bump, set grand
\* total, apply saved rates, region or percentage change, recalculation, new
\* request and its outcome, load, new project) leaves the list, and so every
\* record and its quote snapshot, as it was.
C13_OnlySaveChangesSaved ==
  [][savedProjects' # savedProjects => saveProject]_vars

\* A project was saved and the quote of the session was edited afterwards:
\* the record still holds the quote as it was saved.
C13_Witness ==
  /\ Len(savedProjects) = 1
  /\ currentProjectId = savedProjects[1].id
  /\ HasQuote
  /\ savedProjects[1].quote # quote
  /\ savedProjects[1].quote[1].lineItems = <<PaintItem>>
  /\ region = "NYC"
\* C14: the list stored under 'renovationProjects' is the in-memory list of
\* saved projects, as JSON.stringify writes it, in every state from the
\* startup load on (no stored list: no saved project); so every save writes
\* the whole list.
C14_StoredProjectsCurrent ==
  IF storedProjects = None
  THEN savedProjects = <<>>
  ELSE /\ Len(storedProjects[1]) = Len(savedProjects)
       /\ \A i \in 1..Len(savedProjects) :
            storedProjects[1][i] = JsonProject(savedProjects[i])

\* Two projects were saved and the page was loaded again: no project is
\* current, both are in memory and in storage.
C14_Witness ==
  /\ Len(savedProjects) = 2
  /\ currentProjectId = 0
  /\ storedProjects # None
  /\ Len(storedProjects[1]) = 2
  /\ storedProjects[1][2].quote[1].lineItems = <<PaintItem, TrimItem>>
\* the session shows the record p: every saved field but the file name, which
\* a load does not restore
Shows(p) == [Snapshot(p.id) EXCEPT !.fileName = p.fileName] = p

\* A project was loaded and nothing was done since: the session shows the
\* saved record of the current project and has no file (a load clears the
\* file, a save needs one).
JustLoaded ==
  /\ file = "null"
  /\ \E i \in 1..Len(savedProjects) :
       savedProjects[i].id = currentProjectId /\ Shows(savedProjects[i])

\* C15: save followed by load is a round trip.  A record is the snapshot of
\* the session at its save and stays as it is until the next save of its id
\* (C12, C13), so the round trip is: a load sets project name, image preview,
\* room type, region, scope, overhead %, contingency %, quote, style and
\* rendered image to the record's values, and the recalculation that the
\* load triggers leaves the loaded quote as it is.
C15_LoadRestoresSaved ==
  /\ [][\A i \in 1..Len(savedProjects) :
          currentProjectId' = savedProjects[i].id /\ handleLoadProject(i)
          => Shows(savedProjects[i])']_vars
  /\ [][~Settled /\ JustLoaded /\ RecalculateEffect => quote' = quote]_vars
\* the messages of the failures explored
FailureTexts == FailureMessages \cup ParseFailures \cup {NoImageMessage, UnknownError}

\* the error text that the catch block of a generate operation composes
Surfaced(prefix, e) == \E msg \in FailureTexts : e = prefix \o msg

\* C16: every failure of a generate operation is surfaced.  A quote call that
\* ends without a quote, a render call that ends without an image, and a
\* joint call that ends without one of the two (request rejected, response
\* not JSON, render response without image) leave an error message made of
\* the operation's prefix and the failure's message, and the operation's
\* loading flag false.
C16_FailureSurfaced ==
  [][/\ (revision # "joint" /\ quoteCall # None /\ quoteCall' = None /\ quote' = None)
        => Surfaced("Failed to generate quote. ", error') /\ ~isQuoteLoading'
     /\ (revision = "render" /\ renderCall # None /\ renderCall' = None
           /\ generatedImage' = "null")
        => Surfaced("Failed to generate render. ", error') /\ ~isRenderLoading'
     /\ (revision = "joint" /\ quoteCall # None /\ quoteCall' = None
           /\ (quote' = None \/ generatedImage' = "null"))
        => Surfaced("Failed to generate results. ", error') /\ ~isQuoteLoading'
    ]_vars

\* A render response came without an image.
C16_Witness ==
  /\ revision = "render"
  /\ error = "Failed to generate render. " \o NoImageMessage
  /\ ~isRenderLoading
  /\ renderCall = None
  /\ generatedImage = "null"
\* C17: every quote request carries the uploaded image, the room type, the
\* scope, the region, the current overhead and contingency percentages and
\* the tax rate of the region; every render request carries the uploaded
\* image, the room type, the scope and the region.  (A request is sent in the
\* step that starts its call.)
C17_RequestsCarryInputs ==
  [][/\ (quoteCall = None /\ quoteCall' # None)
        => /\ quoteCall'[1].request.image = Some(file)
           /\ quoteCall'[1].request.roomType = Some(roomType)
           /\ quoteCall'[1].request.scope = Some(scope)
           /\ quoteCall'[1].request.region = Some(region)
           /\ quoteCall'[1].request.overheadPercent = Some(overheadPercent)
           /\ quoteCall'[1].request.contingencyPercent = Some(contingencyPercent)
           /\ quoteCall'[1].request.taxRate = Some(TAX_RATES(region))
     /\ (renderCall = None /\ renderCall' # None)
        => /\ renderCall'[1].request.image = Some(file)
           /\ renderCall'[1].request.roomType = Some(roomType)
           /\ renderCall'[1].request.scope = Some(scope)
           /\ renderCall'[1].request.region = Some(region)
    ]_vars
\* C18: in the revision that awaits the quote call and the render call
\* jointly, a failure of either call aborts the whole operation.  When the
\* joint call ends without a quote or without an image (request rejected,
\* quote text not JSON, render response without image), an error is
\* displayed, loading is false, and quote and generatedImage are both null.
C18_JointFailureInstallsNothing ==
  [][(/\ revision = "joint"
      /\ quoteCall # None /\ quoteCall' = None
      /\ (quote' = None \/ generatedImage' = "null"))
     => /\ error' # "null"
        /\ ~isQuoteLoading'
        /\ quote' = None
        /\ generatedImage' = "null"]_vars
\* C19: the requests sent are those of the generate actions that pass the
\* input validation, one quote request per generateQuote, one render request
\* per generateRender, one of each per joint generate.  Step by step: a
\* generate action that passes validation (its loading flag is raised) starts
\* exactly its calls; a call is started by nothing else (no retry after a
\* failure) and is ended only together with its operation (no cancellation);
\* a generate action with a missing photo, scope or project name only sets
\* the validation message.
C19_OneRequestPerGenerate ==
  [][/\ (~isQuoteLoading /\ isQuoteLoading')
        => /\ quoteCall = None /\ quoteCall' # None
           /\ IF revision = "joint"
              THEN renderCall = None /\ renderCall' # None
              ELSE renderCall' = renderCall
     /\ (~isRenderLoading /\ isRenderLoading')
        => /\ renderCall = None /\ renderCall' # None
           /\ quoteCall' = quoteCall
     /\ quoteCall' # quoteCall
        => \/ quoteCall = None /\ ~isQuoteLoading /\ isQuoteLoading' /\ InputsValid
           \/ quoteCall' = None /\ isQuoteLoading /\ ~isQuoteLoading'
     /\ renderCall' # renderCall
        => \/ /\ renderCall = None /\ InputsValid
              /\ IF revision = "joint" THEN ~isQuoteLoading /\ isQuoteLoading'
                                       ELSE ~isRenderLoading /\ isRenderLoading'
           \/ /\ renderCall' = None
              /\ IF revision = "joint" THEN isQuoteLoading /\ ~isQuoteLoading'
                                       ELSE isRenderLoading /\ ~isRenderLoading'
     /\ (error' # error
          /\ error' \in {QuoteInputsMissing, RenderInputsMissing, JointInputsMissing})
        => /\ ~InputsValid
           /\ UNCHANGED <<quote, isQuoteLoading, isRenderLoading, quoteCall, renderCall,
                          generatedImage>>
    ]_vars
\* C20: the preferences in localStorage are the in-memory ones in every state
\* from the startup load on: the stored 'theme' is the current theme (none
\* stored: the default 'dark'), and the stored 'contractorRates' is the whole
\* rate book as JSON.stringify writes it (none stored: the empty book).  So
\* every toggleTheme, saveContractorRate and removeContractorRate writes what
\* it sets, and a save for a blank description changes neither.
C20_StoredPreferencesCurrent ==
  /\ IF storedTheme = None THEN theme = "dark" ELSE storedTheme[1] = theme
  /\ IF storedRates = None
     THEN contractorRates = {}
     ELSE storedRates[1] = {[r EXCEPT !.rate = JsonNumber(r.rate)] : r \in contractorRates}

\* The theme was toggled to light, the first item's description was blanked
\* (Save Rate on that row refuses), the rate of the second one was saved.
C20_Witness ==
  /\ theme = "light"
  /\ storedTheme = Some("light")
  /\ HasQuote
  /\ Len(quote[1].lineItems) = 2
  /\ KeyOf(quote[1].lineItems[1].item) = ""
  /\ contractorRates = {[key |-> "trim", rate |-> Num(3), unit |-> "lf"]}
  /\ storedRates = Some(contractorRates)
\* String.prototype.split(sep) for a one-character separator
RECURSIVE Split(_, _)
Split(cs, sep) ==
  IF \E i \in 1..Len(cs) : cs[i] = sep
  THEN LET first == CHOOSE i \in 1..Len(cs) : cs[i] = sep /\ \A j \in 1..(i - 1) : cs[j] # sep
       IN  <<SubSeq(cs, 1, first - 1)>> \o Split(SubSeq(cs, first + 1, Len(cs)), sep)
  ELSE <<cs>>

NonBlank(line) == line # <<>>

\* the lines of the exported file that are not empty
ExportedRows == SelectSeq(Split(Downloaded(download[1]), "\n"), NonBlank)

\* C21: the exported file holds the header row, then one row for every line
\* item in the order of the quote, each of exactly the five comma-separated
\* fields item, quantity, unit, rate and total, then the five summary rows
\* Subtotal, Overhead, Contingency, Tax and Grand Total of the current summary;
\* the export leaves the quote as it is.
C21_ExportRows ==
  /\ [](download # None =>
          LET lineItems == quote[1].lineItems
              n == Len(lineItems)
              s == quote[1].summary
              labels == SummaryLabels(overheadPercent, contingencyPercent, region)
              amounts == <<s.subtotal, s.overhead, s.contingency, s.tax, s.grandTotal>>
              rows == ExportedRows
          IN  /\ Len(rows) = 1 + n + 5
              /\ Split(rows[1], ",") = CsvHeaders
              /\ \A i \in 1..n :
                   Split(rows[1 + i], ",") =
                     <<Chars(lineItems[i].item), toFixed2(lineItems[i].quantity),
                       Chars(lineItems[i].unit), toFixed2(lineItems[i].rate),
                       toFixed2(lineItems[i].total)>>
              /\ \A k \in 1..5 :
                   Split(rows[1 + n + k], ",") = <<labels[k], toFixed2(amounts[k])>>)
  /\ [][exportCSV => quote' = quote]_vars

\* a request of either kind leaves the page in this step
RequestStarts ==
  \/ quoteCall = None /\ quoteCall' # None
  \/ renderCall = None /\ renderCall' # None

\* C22: in the revision with separate quote and render buttons at most one of
\* isQuoteLoading and isRenderLoading is true, a quote request and a render
\* request are never in flight together, and no request starts while a flag
\* is set or a request is in flight.
C22_CallsSequenced ==
  /\ [](revision = "render" =>
          /\ ~(isQuoteLoading /\ isRenderLoading)
          /\ ~(quoteCall # None /\ renderCall # None)
          /\ quoteCall # None => isQuoteLoading
          /\ renderCall # None => isRenderLoading)
  /\ [][revision = "render" /\ RequestStarts =>
          /\ ~isQuoteLoading /\ ~isRenderLoading
          /\ quoteCall = None /\ renderCall = None
          /\ (quoteCall' = None \/ renderCall' = None)]_vars

\* A render request is in flight next to the quote of an earlier request.
C22_Witness ==
  /\ revision = "render"
  /\ isRenderLoading /\ renderCall # None
  /\ ~isQuoteLoading /\ HasQuote

\* C23: with a model that answers or fails every request, a loading flag that
\* is set is followed by a state in which it is false and the result is
\* installed or an error is shown, and the step that ends a request clears
\* the flag.
C23_LoadingEnds ==
  /\ isQuoteLoading ~>
       (~isQuoteLoading /\ (HasQuote \/ generatedImage # "null" \/ error # "null"))
  /\ isRenderLoading ~> (~isRenderLoading /\ (generatedImage # "null" \/ error # "null"))
  /\ [][/\ (quoteCall # None /\ quoteCall' = None) => ~isQuoteLoading'
        /\ (revision = "render" /\ renderCall # None /\ renderCall' = None)
             => ~isRenderLoading']_vars

\* the error of a failed quote request is shown
QuoteFailureShown == \E msg \in FailureTexts : error = "Failed to generate quote. " \o msg

\* C24: in the revision with the quote only, the message of a failed quote
\* request is never shown together with a quote.
C24_FailureWithoutQuote == revision = "quote" /\ QuoteFailureShown => ~HasQuote

\* C25: in the revision with separate quote and render buttons no step of
\* generateRender (start, image, failure) changes the quote and no step of
\* generateQuote (start, quote, failure) changes the rendered image.
C25_ResultsIndependent ==
  [][revision = "render" =>
       /\ (\/ generateRender
           \/ generateRenderUnreadable
           \/ \E img \in RenderImages : RenderResponse(img)
           \/ \E msg \in FailureMessages \cup {NoImageMessage} : RenderFailure(msg))
            => quote' = quote
       /\ (\/ generateQuote
           \/ generateQuoteUnreadable
           \/ \E msg \in FailureMessages \cup ParseFailures \cup {UnknownError} : QuoteFailure(msg)
           \/ \E reply \in QuoteReplies : QuoteResponse(reply))
            => generatedImage' = generatedImage]_vars

\* Both requests have been answered: a quote and an image are displayed.
C25_Witness ==
  /\ revision = "render"
  /\ HasQuote /\ generatedImage # "null"
  /\ renderCall = None /\ quoteCall = None

\* the cases in which the claim has saveProject rejected
SaveRejected ==
  \/ projectName = ""
  \/ IF revision = "quote" THEN ~HasQuote ELSE ~HasQuote /\ generatedImage = "null"
  \/ filePreview = "null"
  \/ file = "null"

\* C26: with an empty project name, without a result, without a preview or
\* without a file (as right after a load) saveProject changes nothing: no
\* step saves, the stored list stays, the list in memory changes only by
\* reading it again from storage, and the current project id changes only by
\* a load, a new project or a reload.
C26_RejectedSaveKeepsAll ==
  [][SaveRejected =>
       /\ ~saveProject
       /\ storedProjects' = storedProjects
       /\ savedProjects' # savedProjects => Reload
       /\ currentProjectId' # currentProjectId =>
            \/ NewProject
            \/ \E i \in 1..MaxProjects : handleLoadProject(i)
            \/ Reload]_vars

\* Right after the load of a saved project: name, quote and preview are
\* there, the file is not.
C26_Witness ==
  /\ JustLoaded
  /\ projectName # "" /\ HasQuote /\ filePreview # "null" /\ file = "null"
  /\ ~isQuoteLoading /\ ~isRenderLoading

\* the percentage of the bulk bump: rateAdjustPercent, or the number read
\* from the text of the bump field
BumpPercentage == IF revision = "quote" THEN rateAdjustPercent ELSE parseFloat(bumpPercent)

\* (100 + p) / 100 upward and (100 - p) / 100 downward
StatedFactor(direction, p) ==
  IF direction = "up" THEN Div(Add(Hundred, p), Hundred)
  ELSE Div(Add(Hundred, Mul(Num(-1), p)), Hundred)

\* C27: a bulk bump by p% multiplies the rate of every line item by 1 + p/100
\* (upward) or 1 - p/100 (downward) and sets its total to quantity times the
\* new rate; descriptions, quantities, units, the number of items and their
\* order stay; without a quote or with a p that is not a number there is no
\* bump.
C27_BulkBump ==
  [][\A direction \in Directions :
       handleBump(direction) \/ handleGlobalRateAdjust(direction) =>
         /\ HasQuote /\ ~isNaN(BumpPercentage)
         /\ quote' # None
         /\ LET old == quote[1].lineItems
                new == quote'[1].lineItems
                factor == StatedFactor(direction, BumpPercentage)
            IN  /\ Len(new) = Len(old)
                /\ \A i \in 1..Len(old) :
                     /\ new[i].item = old[i].item
                     /\ new[i].quantity = old[i].quantity
                     /\ new[i].unit = old[i].unit
                     /\ new[i].rate = Mul(old[i].rate, factor)
                     /\ new[i].total = Mul(old[i].quantity, new[i].rate)]_vars

\* Paint (2 sqft at 20) after a bump by 10% upward, or by 5% upward in the
\* revision whose field starts at 5.
C27_Witness ==
  /\ HasQuote
  /\ \E i \in 1..Len(quote[1].lineItems) :
       /\ quote[1].lineItems[i].item = "Paint"
       /\ quote[1].lineItems[i].quantity = Num(2)
       /\ \/ quote[1].lineItems[i].rate = Num(22) /\ quote[1].lineItems[i].total = Num(44)
          \/ quote[1].lineItems[i].rate = Num(21) /\ quote[1].lineItems[i].total = Num(42)

\* the quote that setQuote(recalculateQuote(items)) installs over quote q in
\* the current render
Recalculated(q, items) ==
  recalculateQuote(items, "", overheadPercent, contingencyPercent, region,
                   q.summary.disclaimer)

\* addManualItem on quote q, then handleRemoveItem of the last item
AddedThenRemoved(q) ==
  LET added == Recalculated(q, Append(q.lineItems, NewItem))
  IN  Recalculated(added, Removed(added.lineItems, Len(added.lineItems)))

\* C28: addManualItem appends the item New Item, 1, each, 0, 0 and changes
\* neither the other items nor the subtotal; handleRemoveItem(i) removes item
\* i and keeps the others in order; adding an item and removing the last item
\* gives back the line items and the summary.
C28_AddRemove ==
  /\ [][/\ addManualItem =>
             /\ quote'[1].lineItems =
                  quote[1].lineItems \o
                    <<[item |-> "New Item", quantity |-> Num(1), unit |-> "each",
                       rate |-> Zero, total |-> Zero]>>
             /\ quote'[1].summary.subtotal = quote[1].summary.subtotal
        /\ \A i \in 1..MaxItems :
             handleRemoveItem(i) =>
               /\ Len(quote'[1].lineItems) = Len(quote[1].lineItems) - 1
               /\ \A j \in 1..Len(quote'[1].lineItems) :
                    quote'[1].lineItems[j] =
                      quote[1].lineItems[IF j < i THEN j ELSE j + 1]]_vars
  /\ [](EditorShown /\ Settled /\ HasQuote => AddedThenRemoved(quote[1]) = quote[1])

\* C29: applyContractorRates gives an item whose trimmed, lower-cased
\* description is a key of the rate book the saved rate and unit and the total
\* quantity times saved rate, leaves every other item as it is, changes no
\* description and no quantity, and recomputes the summary; it does nothing
\* without a quote or with an empty rate book.
C29_ApplySavedRates ==
  [][applyContractorRates =>
       /\ HasQuote /\ contractorRates # {}
       /\ quote' # None
       /\ LET old == quote[1].lineItems
              new == quote'[1].lineItems
          IN  /\ Len(new) = Len(old)
              /\ \A i \in 1..Len(old) :
                   IF HasRate(KeyOf(old[i].item))
                   THEN LET saved == RateOf(KeyOf(old[i].item))
                        IN  /\ new[i].item = old[i].item
                            /\ new[i].quantity = old[i].quantity
                            /\ new[i].rate = saved.rate
                            /\ new[i].unit = saved.unit
                            /\ new[i].total = Mul(old[i].quantity, saved.rate)
                   ELSE new[i] = old[i]
              /\ quote'[1].summary = Recalculated(quote[1], new).summary]_vars

\* C30: in the revision with the login screen isAuthenticated is false at
\* first; it becomes true only by a submit of the correct password or, at a
\* page load, by the session flag, which only such a submit writes; a submit
\* of any other password leaves it false and sets the error of the login
\* screen; while it is false no step changes anything but the login screen
\* (no generate, edit, save or load); once true it stays true.
C30_LoginGate ==
  /\ revision = "quote" => ~isAuthenticated
  /\ [][/\ (~isAuthenticated /\ isAuthenticated')
           => handleSubmit(DEMO_PASSWORD) \/ sessionAuth
        /\ sessionAuth' # sessionAuth => handleSubmit(DEMO_PASSWORD)
        /\ \A password \in Passwords \ {DEMO_PASSWORD} :
             handleSubmit(password) => ~isAuthenticated' /\ loginError' # ""
        /\ ~isAuthenticated
           => UNCHANGED <<formVars, pctVars, genVars, projVars, editVars, roomVars,
                          storeVars, download, quote, effectDeps, edits>>
        /\ isAuthenticated => isAuthenticated'
        ]_vars

\* The user signed in, saved a project and loaded the page again: the session
\* flag authenticates the new page.
C30_Witness ==
  /\ revision = "quote"
  /\ isAuthenticated
  /\ sessionAuth
  /\ Len(savedProjects) = 1
  /\ currentProjectId = 0
  /\ projectName = ""
  /\ edits = 1
====
